---- MODULE Spec2Model ----
(***************************************************************************)
(* Mortgage assistant backend: the tool-calling orchestration loop         *)
(* (backend/app/main.py), the argument validator and tool dispatcher       *)
(* (backend/app/agent.py), the calculators (backend/app/tools.py) and the  *)
(* in-memory session store (backend/app/state.py).                         *)
(*                                                                         *)
(* Conventions of the model                                                *)
(*  - A Python str that is shown to the user or sent to the LLM is a       *)
(*    sequence of tokens (strings); "" is << >>.  A str inside a tool      *)
(*    argument is a sequence of one-character strings, so that int() and   *)
(*    float() can be computed on it.                                       *)
(*  - A Python number is an integer.  interest_rate is carried in tenths   *)
(*    of a percent (45 is 4.5%), because the default rate is 4.5.          *)
(*  - A Python dict is a function from its keys (strings) to its values.   *)
(*  - The chunks of main.py:292-296 are chunk_size tokens long, where the   *)
(*    code cuts chunk_size characters.                                     *)
(*  - (1 + monthly_rate) ** num_months is computed in fixed point with     *)
(*    eight decimals; the amounts calculate_emi derives from it agree with *)
(*    the floating-point results to about one part in a million, not to    *)
(*    the cent.                                                            *)
(***************************************************************************)
EXTENDS Integers, Sequences, FiniteSets, TLC

(***************************************************************************)
(* Python values that occur in tool arguments.                             *)
(***************************************************************************)
Num(n) == [t |-> "num", v |-> n]
Str(s) == [t |-> "str", s |-> s]
None == [t |-> "null"]
List == [t |-> "list"]
Dict(d) == [t |-> "dict", d |-> d]

EmptyDict == [k \in {} |-> None]

IsNum(x) == x.t = "num"

\* One key/value pair, and the dict of two dicts (the left one wins).
KV(k, x) == k :> x

(***************************************************************************)
(* int(value) and float(value) on a str (main.py:26-32).                   *)
(***************************************************************************)
Digits == {"0", "1", "2", "3", "4", "5", "6", "7", "8", "9"}

DigitValue(c) ==
    CASE c = "0" -> 0 [] c = "1" -> 1 [] c = "2" -> 2 [] c = "3" -> 3
      [] c = "4" -> 4 [] c = "5" -> 5 [] c = "6" -> 6 [] c = "7" -> 7
      [] c = "8" -> 8 [] c = "9" -> 9

IsDigits(s) == Len(s) > 0 /\ \A i \in 1..Len(s) : s[i] \in Digits

RECURSIVE DigitsValue(_)
DigitsValue(s) ==
    IF s = << >> THEN 0
    ELSE 10 * DigitsValue(SubSeq(s, 1, Len(s) - 1)) + DigitValue(s[Len(s)])

\* The text without a leading sign.
Unsigned(s) == IF s # << >> /\ s[1] \in {"-", "+"} THEN Tail(s) ELSE s
Sign(s) == IF s # << >> /\ s[1] = "-" THEN -1 ELSE 1

\* int(s): [ok, v]; ok is FALSE where Python raises ValueError.
ParseInt(s) ==
    IF IsDigits(Unsigned(s))
    THEN [ok |-> TRUE, v |-> Sign(s) * DigitsValue(Unsigned(s))]
    ELSE [ok |-> FALSE, v |-> 0]

HasDot(s) == \E i \in 1..Len(s) : s[i] = "."
DotAt(s) == CHOOSE i \in 1..Len(s) : s[i] = "." /\ \A j \in 1..(i - 1) : s[j] # "."

\* float(s) for digits "." digits; the model's numbers are integers, so the
\* value is defined where the fraction is zero and is the integer part
\* otherwise (no argument of the model has a fraction).
ParseFloat(s) ==
    LET u == Unsigned(s)
        k == DotAt(u)
        ip == SubSeq(u, 1, k - 1)
        fp == SubSeq(u, k + 1, Len(u))
    IN  IF /\ HasDot(u)
           /\ (ip = << >> \/ IsDigits(ip))
           /\ (fp = << >> \/ IsDigits(fp))
           /\ (ip # << >> \/ fp # << >>)
        THEN [ok |-> TRUE, v |-> Sign(s) * DigitsValue(ip)]
        ELSE [ok |-> FALSE, v |-> 0]

(***************************************************************************)
(* convert_strings_to_numbers (main.py:20-37), on a dict.                  *)
(***************************************************************************)
ConvertValue(x) ==
    IF x.t = "str"
    THEN LET r == IF HasDot(x.s) THEN ParseFloat(x.s) ELSE ParseInt(x.s)
         IN  IF r.ok THEN Num(r.v) ELSE x
    ELSE x

RECURSIVE convert_strings_to_numbers(_)
convert_strings_to_numbers(data) ==
    [key \in DOMAIN data |->
        IF data[key].t = "dict"
        THEN Dict(convert_strings_to_numbers(data[key].d))
        ELSE ConvertValue(data[key])]

(***************************************************************************)
(* json.loads of the raw argument text of a tool call.  The raw text is    *)
(* either not JSON or is the JSON text of a value.                         *)
(***************************************************************************)
NotJson == [text |-> "invalid"]
JsonOf(x) == [text |-> "json", value |-> x]

\* [ok, value]; ok is FALSE where json.loads raises JSONDecodeError.
json_loads(raw) ==
    IF raw.text = "json" THEN [ok |-> TRUE, value |-> raw.value]
    ELSE [ok |-> FALSE, value |-> None]

\* json.dumps of a tool result: the text sent to the LLM.
json_dumps(x) == [json |-> x]

(***************************************************************************)
(* Arithmetic.  TLC's integers are 32 bits wide, so products and scaled    *)
(* quotients are computed on four-digit limbs and by long division,        *)
(* without forming a number of more than 31 bits.  All operands are >= 0.  *)
(***************************************************************************)
Limb == 10000

\* floor((a * b + add) / Limb^2), for add < Limb^2 and a result of 31 bits.
MulShift(a, b, add) ==
    LET a1 == a \div Limb
        a0 == a % Limb
        b1 == b \div Limb
        b0 == b % Limb
    IN  (a1 * b1) + (((a1 * b0) + (a0 * b1) + (((a0 * b0) + add) \div Limb)) \div Limb)

\* Long division of x by y: [q, r], then k more decimal digits of the
\* quotient, then the nearest integer.  y < 2^31 / 10.
DivRem(x, y) == [q |-> x \div y, r |-> x % y]

RECURSIVE LongDiv(_, _, _)
LongDiv(qr, y, k) ==
    IF k = 0 THEN qr
    ELSE LongDiv([q |-> (qr.q * 10) + ((qr.r * 10) \div y), r |-> (qr.r * 10) % y],
                 y, k - 1)

Nearest(qr, y) == IF 2 * qr.r >= y THEN qr.q + 1 ELSE qr.q

\* round(x * 10^k / y)
DivScaled(x, y, k) == Nearest(LongDiv(DivRem(x, y), y, k), y)

\* Reals in 0 .. 4.6 as fixed-point numbers of eight decimals.
FixedDigits == 8
FixedOne == 100000000
FMul(x, y) == MulShift(x, y, FixedOne \div 2)
\* x / y; a divisor too wide for the long division loses its last two digits.
FDiv(x, y) ==
    IF y < 200000000 THEN DivScaled(x, y, FixedDigits)
    ELSE DivScaled(x \div 100, y \div 100, FixedDigits)

RECURSIVE FPow(_, _)
FPow(x, n) ==
    IF n = 0 THEN FixedOne
    ELSE IF n % 2 = 0 THEN FPow(FMul(x, x), n \div 2)
    ELSE FMul(x, FPow(FMul(x, x), n \div 2))

(***************************************************************************)
(* The calculators (tools.py).  Each takes Python values and returns       *)
(* [raised, result, calls]: raised where the body raises (a comparison or  *)
(* an arithmetic operation on a value that is no number), result the dict  *)
(* it returns, calls the calculator calls it made itself.  Amounts a       *)
(* calculator rounds to two decimals are returned in hundredths.           *)
(***************************************************************************)
Returned(result, calls) == [raised |-> FALSE, result |-> result, calls |-> calls]
Raised(calls) == [raised |-> TRUE, result |-> EmptyDict, calls |-> calls]
Error(msg) == [error |-> msg]

\* The interest rate in the model's unit (tenths of a percent).
RateScale == 10
MaxTenure == 25

\* emi / loan_amount = r * (1+r)^n / ((1+r)^n - 1) = r + r / ((1+r)^n - 1),
\* with r = interest_rate / 100 / 12, as a fixed-point number (tools.py:41-48).
EmiFactor(interest_rate, num_months) ==
    LET monthly_rate == DivScaled(interest_rate, RateScale * 100 * 12, FixedDigits)
        growth == FPow(FixedOne + monthly_rate, num_months)
    IN  monthly_rate + FDiv(monthly_rate, growth - FixedOne)

\* emi * k in hundredths, for k = 1 and k = num_months.
EmiHundredths(loan_amount, interest_rate, num_months, k) ==
    IF interest_rate = 0
    THEN DivScaled(loan_amount * k, num_months, 2)
    ELSE MulShift(loan_amount * k, 100 * EmiFactor(interest_rate, num_months),
                  FixedOne \div 2)

calculate_emi(loan_amount, interest_rate, tenure_years) ==
    IF ~IsNum(loan_amount) THEN Raised(<< >>)
    ELSE IF loan_amount.v <= 0 THEN Returned(Error(<<"Loan amount must be positive">>), << >>)
    ELSE IF ~IsNum(tenure_years) THEN Raised(<< >>)
    ELSE IF tenure_years.v <= 0 \/ tenure_years.v > MaxTenure
         THEN Returned(Error(<<"Tenure must be between 1 and 25 years">>), << >>)
    ELSE IF ~IsNum(interest_rate) THEN Raised(<< >>)
    ELSE IF interest_rate.v < 0
         THEN Returned(Error(<<"Interest rate cannot be negative">>), << >>)
    ELSE LET num_months == tenure_years.v * 12
             emi == EmiHundredths(loan_amount.v, interest_rate.v, num_months, 1)
             total_amount == EmiHundredths(loan_amount.v, interest_rate.v, num_months,
                                           num_months)
         IN  Returned([emi |-> emi,
                       total_amount |-> total_amount,
                       total_interest |-> total_amount - 100 * loan_amount.v,
                       loan_amount |-> loan_amount.v,
                       interest_rate |-> interest_rate.v,
                       tenure_years |-> tenure_years.v,
                       tenure_months |-> num_months], << >>)

max_ltv == 80

check_ltv(property_price, down_payment) ==
    IF ~IsNum(property_price) THEN Raised(<< >>)
    ELSE IF property_price.v <= 0
         THEN Returned(Error(<<"Property price must be positive">>), << >>)
    ELSE IF ~IsNum(down_payment) THEN Raised(<< >>)
    ELSE IF down_payment.v < 0
         THEN Returned(Error(<<"Down payment cannot be negative">>), << >>)
    ELSE IF down_payment.v >= property_price.v
         THEN Returned(Error(<<"Down payment cannot exceed property price">>), << >>)
    ELSE LET loan_amount == property_price.v - down_payment.v
             \* hundredths of (loan_amount / property_price) * 100
             ltv_ratio == DivScaled(loan_amount, property_price.v, 4)
             max_loanable == property_price.v * max_ltv
             min_down_payment_required == 100 * property_price.v - max_loanable
             is_valid == loan_amount * 100 <= max_ltv * property_price.v
         IN  Returned([ltv_ratio |-> ltv_ratio,
                       loan_amount |-> 100 * loan_amount,
                       max_loanable |-> max_loanable,
                       min_down_payment_required |-> min_down_payment_required,
                       is_valid |-> is_valid,
                       property_price |-> property_price.v,
                       down_payment |-> down_payment.v,
                       message |-> IF is_valid THEN <<"Valid">>
                                   ELSE <<"LTV exceeds 80%. Minimum down payment required:",
                                          ToString(min_down_payment_required \div 100),
                                          "AED">>], << >>)

calculate_upfront_costs(property_price) ==
    IF ~IsNum(property_price) THEN Raised(<< >>)
    ELSE IF property_price.v <= 0
         THEN Returned(Error(<<"Property price must be positive">>), << >>)
    ELSE LET transfer_fee == property_price.v * 4
             agency_fee == property_price.v * 2
             misc_fee == property_price.v * 1
             total_upfront == transfer_fee + agency_fee + misc_fee
         IN  Returned([property_price |-> property_price.v,
                       transfer_fee |-> transfer_fee,
                       agency_fee |-> agency_fee,
                       misc_fee |-> misc_fee,
                       total_upfront_costs |-> total_upfront,
                       percentage |-> 7,
                       total_with_costs |-> 100 * property_price.v + total_upfront], << >>)

\* A calculator call as the history records it: the function and its arguments.
Call(name, args) == [name |-> name, args |-> args]

DefaultInterestRate == 45

StayRecommendationFrom5(stay_years, cost_less_than_rent) ==
    IF stay_years < 3 THEN "RENT"
    ELSE IF stay_years >= 5 THEN "BUY"
    ELSE IF cost_less_than_rent THEN "BUY" ELSE "RENT"

\* tools.py:214-227: the rule of the stay, and between 3 and 5 years of the cost.
StayRecommendation(stay_years, cost_less_than_rent) ==
    IF stay_years < 3 THEN "RENT"
    ELSE IF stay_years > 5 THEN "BUY"
    ELSE IF cost_less_than_rent THEN "BUY" ELSE "RENT"

NoOverride(is_affordable, first_recommendation) == first_recommendation

\* tools.py:233-234: what is not affordable is not bought.
FinalRecommendation(is_affordable, first_recommendation) ==
    IF is_affordable THEN first_recommendation ELSE "RENT"

LtvFailed(ltv_check) == "error" \in DOMAIN ltv_check

\* tools.py:187: not ltv_check.get("is_valid", False)
LtvRejected(ltv_check) == ~("is_valid" \in DOMAIN ltv_check /\ ltv_check.is_valid)

buy_vs_rent_analysis(monthly_rent, property_price, stay_years, income, down_payment, interest_rate) ==
    IF ~IsNum(monthly_rent) THEN Raised(<< >>)
    ELSE IF monthly_rent.v <= 0
         THEN Returned(Error(<<"Monthly rent must be positive">>), << >>)
    ELSE IF ~IsNum(property_price) THEN Raised(<< >>)
    ELSE IF property_price.v <= 0
         THEN Returned(Error(<<"Property price must be positive">>), << >>)
    ELSE IF ~IsNum(stay_years) THEN Raised(<< >>)
    ELSE IF stay_years.v <= 0
         THEN Returned(Error(<<"Stay duration must be positive">>), << >>)
    ELSE IF ~IsNum(income) THEN Raised(<< >>)
    ELSE IF income.v <= 0 THEN Returned(Error(<<"Income must be positive">>), << >>)
    ELSE IF ~IsNum(down_payment) THEN Raised(<< >>)
    ELSE
    LET loan_amount == property_price.v - down_payment.v
        ltv == check_ltv(property_price, down_payment)
        ltv_check == ltv.result
        ltv_call == Call("check_ltv", Dict(KV("property_price", property_price)
                                           @@ KV("down_payment", down_payment)))
        emi_args == KV("loan_amount", Num(loan_amount))
                    @@ KV("interest_rate", interest_rate)
                    @@ KV("tenure_years", Num(MaxTenure))
        emi_call == Call("calculate_emi", Dict(emi_args))
        emi_ret == calculate_emi(Num(loan_amount), interest_rate, Num(MaxTenure))
        emi_result == emi_ret.result
        upfront_call == Call("calculate_upfront_costs",
                             Dict(KV("property_price", property_price)))
        upfront_costs == calculate_upfront_costs(property_price).result
    IN
    IF ltv.raised THEN Raised(<<ltv_call>>)
    ELSE IF LtvRejected(ltv_check)
    THEN Returned([error |-> IF "message" \in DOMAIN ltv_check THEN ltv_check.message
                             ELSE <<"Invalid LTV ratio">>,
                   ltv_details |-> ltv_check], <<ltv_call>>)
    ELSE IF emi_ret.raised THEN Raised(<<ltv_call, emi_call>>)
    ELSE IF "error" \in DOMAIN emi_result THEN Returned(emi_result, <<ltv_call, emi_call>>)
    ELSE
    LET emi == emi_result.emi
        \* hundredths of (loan_amount * interest_rate / 100) / 12 and of
        \* property_price * 0.001 / 12: both are a numerator over 120
        interest_num == loan_amount * interest_rate.v
        maintenance_num == property_price.v
        monthly_interest == Nearest(DivRem(interest_num, 120), 120)
        maintenance_estimate == Nearest(DivRem(maintenance_num, 120), 120)
        monthly_ownership_cost ==
            Nearest(DivRem(interest_num + maintenance_num, 120), 120)
        total_upfront == upfront_costs.total_upfront_costs
        cost_less_than_rent ==
            interest_num + maintenance_num < 120 * 100 * monthly_rent.v
        first_recommendation == StayRecommendation(stay_years.v, cost_less_than_rent)
        first_reason ==
            IF stay_years.v < 3
            THEN <<"Planning to stay less than 3 years. Transaction costs (",
                   ToString(total_upfront \div 100), " AED) would outweigh benefits.">>
            ELSE IF stay_years.v > 5
            THEN <<"Planning to stay more than 5 years. Equity buildup and long-term savings favor buying.">>
            ELSE IF cost_less_than_rent
            THEN <<"Monthly ownership cost (", ToString(monthly_ownership_cost \div 100),
                   " AED) is less than rent (", ToString(monthly_rent.v), " AED).">>
            ELSE <<"Monthly rent (", ToString(monthly_rent.v),
                   " AED) is less than ownership cost (",
                   ToString(monthly_ownership_cost \div 100), " AED) for now.">>
        \* hundredths of (emi / income) * 100
        affordability_ratio == DivScaled(emi, income.v, 2)
        is_affordable == emi <= 30 * income.v
        affordability_reason ==
            <<"EMI (", ToString(emi \div 100), " AED) is ",
              ToString(affordability_ratio \div 100), "% of income. Recommended max is 30%.">>
    IN
    Returned([recommendation |-> FinalRecommendation(is_affordable, first_recommendation),
              reasoning |-> IF is_affordable THEN <<first_reason>>
                            ELSE <<first_reason, affordability_reason>>,
              monthly_rent |-> monthly_rent.v,
              monthly_ownership_cost |-> monthly_ownership_cost,
              monthly_interest |-> monthly_interest,
              maintenance_estimate |-> maintenance_estimate,
              emi |-> emi,
              affordability_ratio |-> affordability_ratio,
              is_affordable |-> is_affordable,
              stay_years |-> stay_years.v,
              upfront_costs |-> total_upfront,
              ltv_details |-> ltv_check,
              emi_details |-> emi_result],
             <<ltv_call, emi_call, upfront_call>>)

(***************************************************************************)
(* The validator and the dispatcher (agent.py).                            *)
(***************************************************************************)
ToolNames ==
    {"calculate_emi", "check_ltv", "calculate_upfront_costs", "buy_vs_rent_analysis"}

\* TOOL_FUNCTIONS with the signatures of tools.py: the parameters of each
\* function in order, and those that have a default.
TOOL_FUNCTIONS ==
    [calculate_emi |-> <<"loan_amount", "interest_rate", "tenure_years">>,
     check_ltv |-> <<"property_price", "down_payment">>,
     calculate_upfront_costs |-> <<"property_price">>,
     buy_vs_rent_analysis |-> <<"monthly_rent", "property_price", "stay_years",
                                "income", "down_payment", "interest_rate">>]

Defaults ==
    [calculate_emi |-> EmptyDict,
     check_ltv |-> EmptyDict,
     calculate_upfront_costs |-> EmptyDict,
     buy_vs_rent_analysis |-> KV("interest_rate", Num(DefaultInterestRate))]

positive_params ==
    [calculate_emi |-> <<"loan_amount">>,
     check_ltv |-> <<"property_price">>,
     calculate_upfront_costs |-> <<"property_price">>,
     buy_vs_rent_analysis |-> <<"property_price", "monthly_rent", "income",
                                "down_payment", "stay_years">>]

required_params ==
    [calculate_emi |-> <<"loan_amount", "tenure_years">>,
     check_ltv |-> <<"property_price", "down_payment">>,
     calculate_upfront_costs |-> <<"property_price">>,
     buy_vs_rent_analysis |-> <<"monthly_rent", "property_price", "stay_years",
                                "income", "down_payment">>]

Range(seq) == {seq[i] : i \in 1..Len(seq)}

\* `param in arguments`, defined for a dict, a list and a str.
IsContainer(arguments) == arguments.t \in {"dict", "list", "str"}
Contains(arguments, param) == arguments.t = "dict" /\ param \in DOMAIN arguments.d

\* str(value) inside an f-string.
Render(value) ==
    CASE value.t = "num" -> <<ToString(value.v)>>
      [] value.t = "str" -> value.s
      [] value.t = "null" -> <<"None">>
      [] value.t = "list" -> <<"[]">>
      [] value.t = "dict" -> <<"{}">>

RECURSIVE Flatten(_)
Flatten(seqs) == IF seqs = << >> THEN << >> ELSE Head(seqs) \o Flatten(Tail(seqs))

Valid == [raised |-> FALSE, is_valid |-> TRUE, error_msg |-> << >>]
Invalid(msg) == [raised |-> FALSE, is_valid |-> FALSE, error_msg |-> msg]
TypeError == [raised |-> TRUE, is_valid |-> FALSE, error_msg |-> << >>]

IsPositive(value) == IsNum(value) /\ value.v > 0

\* [raised, is_valid, error_msg]; raised where `param not in arguments`
\* raises TypeError (arguments is no container).
UnknownRejected(tool_name) == Invalid(<<"Unknown tool:", tool_name>>)

\* agent.py:198-199: a tool without required_params is left to execute_tool.
UnknownAnswer(tool_name) == Valid

FirstMissingMessage(missing) == <<"Missing required parameters:", missing[1]>>

\* agent.py:204: the names that are missing, joined.
MissingMessage(missing) == <<"Missing required parameters:">> \o missing

validate_tool_arguments(tool_name, arguments) ==
    IF tool_name \notin DOMAIN required_params THEN UnknownAnswer(tool_name)
    ELSE IF ~IsContainer(arguments) THEN TypeError
    ELSE
    LET missing == SelectSeq(required_params[tool_name],
                             LAMBDA param : ~Contains(arguments, param))
        invalid == SelectSeq(positive_params[tool_name],
                             LAMBDA param : /\ Contains(arguments, param)
                                            /\ ~IsPositive(arguments.d[param]))
        echo(param) == <<param, "(got">> \o Render(arguments.d[param])
                       \o <<", must be positive)">>
    IN  IF missing # << >>
        THEN Invalid(MissingMessage(missing))
        ELSE IF invalid # << >>
        THEN Invalid(<<"Cannot execute tool: Invalid parameter values -">>
                     \o Flatten([i \in 1..Len(invalid) |-> echo(invalid[i])])
                     \o <<". Please ask the user for missing information before calling this tool.">>)
        ELSE Valid

\* func(**arguments): the call binds the keywords to the parameters and runs
\* the body; [raised, result, calls].
CallFunction(tool_name, arguments) ==
    LET params == Range(TOOL_FUNCTIONS[tool_name])
        given == arguments.d @@ Defaults[tool_name]
    IN  IF arguments.t # "dict" THEN Raised(<< >>)
        ELSE IF ~(DOMAIN arguments.d \subseteq params) \/ ~(params \subseteq DOMAIN given)
        THEN Raised(<< >>)
        ELSE CASE tool_name = "calculate_emi" ->
                    calculate_emi(given.loan_amount, given.interest_rate, given.tenure_years)
               [] tool_name = "check_ltv" ->
                    check_ltv(given.property_price, given.down_payment)
               [] tool_name = "calculate_upfront_costs" ->
                    calculate_upfront_costs(given.property_price)
               [] tool_name = "buy_vs_rent_analysis" ->
                    buy_vs_rent_analysis(given.monthly_rent, given.property_price,
                                         given.stay_years, given.income,
                                         given.down_payment, given.interest_rate)

\* [raised, result, calls]: raised where the validator raises, outside the
\* try block; calls are the calculator calls made, the dispatched one first.
ExecutionError == Error(<<"Tool execution failed:", "TypeError">>)

\* agent.py:240-245: the function is called; an exception becomes a failure.
Propagated(call, c) ==
    IF c.raised THEN Raised(<<call>> \o c.calls)
    ELSE Returned(c.result, <<call>> \o c.calls)

Called(call, c) ==
    IF c.raised
    THEN Returned(ExecutionError, <<call>> \o c.calls)
    ELSE Returned(c.result, <<call>> \o c.calls)

Unvalidated(v, tool_name, arguments) ==
    Called(Call(tool_name, arguments), CallFunction(tool_name, arguments))

\* agent.py:236-238: the arguments are validated before the call.
Validated(v, tool_name, arguments) ==
    IF v.raised THEN Raised(<< >>)
    ELSE IF ~v.is_valid THEN Returned(Error(v.error_msg), << >>)
    ELSE Called(Call(tool_name, arguments), CallFunction(tool_name, arguments))

execute_tool(tool_name, arguments) ==
    IF tool_name \notin DOMAIN TOOL_FUNCTIONS
    THEN Returned(Error(<<"Unknown tool:", tool_name>>), << >>)
    ELSE Validated(validate_tool_arguments(tool_name, arguments), tool_name, arguments)

(***************************************************************************)
(* format_tool_results_response (main.py:40-109).  tool_results is the     *)
(* list of [tool_name, arguments, result] the loop collected.              *)
(***************************************************************************)
Bullets(reasoning) ==
    Flatten([i \in 1..Len(reasoning) |->
                (IF i = 1 THEN << >> ELSE <<"\n">>) \o <<"* ">> \o reasoning[i]])

\* The response_parts one tool result appends.
ResponseParts(tool_result) ==
    LET tool_name == tool_result.tool_name
        result == tool_result.result
    IN  IF "error" \in DOMAIN result THEN << >>
        ELSE CASE tool_name = "calculate_emi" ->
                    << <<"For a loan of ", ToString(result.loan_amount),
                         " AED at 4.5% interest over ", ToString(result.tenure_years),
                         " years:\n\n* Monthly EMI: ", ToString(result.emi),
                         " AED\n* Total amount payable: ", ToString(result.total_amount),
                         " AED\n* Total interest: ", ToString(result.total_interest),
                         " AED">> >>
               [] tool_name = "check_ltv" ->
                    IF result.is_valid
                    THEN << <<"Your LTV ratio is ", ToString(result.ltv_ratio),
                              "%, which meets UAE expat requirements (maximum 80%).">> >>
                    ELSE << <<"Your LTV ratio is ", ToString(result.ltv_ratio),
                              "%, which exceeds the 80% limit for expats. ",
                              "You'll need a minimum down payment of ",
                              ToString(result.min_down_payment_required), " AED.">> >>
               [] tool_name = "calculate_upfront_costs" ->
                    << <<"For a property worth ", ToString(result.property_price),
                         " AED, the upfront costs are approximately ",
                         ToString(result.total_upfront_costs), " AED ",
                         "(7% of property price: 4% transfer fee, 2% agency fee, 1% miscellaneous).">> >>
               [] tool_name = "buy_vs_rent_analysis" ->
                    << <<"Based on your situation, I recommend: **",
                         result.recommendation, "**\n\n">> >>
                    \o (IF result.reasoning # << >>
                        THEN <<Bullets(result.reasoning)>> ELSE << >>)
                    \o (IF result.emi # 0
                        THEN << <<"\n\nYour estimated monthly EMI would be ",
                                  ToString(result.emi), " AED.">> >>
                        ELSE << >>)
               [] OTHER -> << >>

\* "\n\n".join(parts)
JoinParts(parts) ==
    Flatten([i \in 1..Len(parts) |->
                (IF i = 1 THEN << >> ELSE <<"\n\n">>) \o parts[i]])

format_tool_results_response(tool_results) ==
    JoinParts(Flatten([i \in 1..Len(tool_results) |-> ResponseParts(tool_results[i])]))

(***************************************************************************)
(* The state.                                                              *)
(***************************************************************************)
VARIABLES
    conversations,    \* ConversationState.conversations: session id -> session
    local,            \* per task: the locals of its stream_chat_response call
    calculator_calls, \* history: every call made of a calculator function
    handled,          \* the last direct call of a function of agent.py: what
                      \* handle_tool_calls returned, or a call of the
                      \* validator with what it returned
    budget            \* completions the LLM may still vary (see MaxVaried)

vars == <<conversations, local, calculator_calls, handled, budget>>

(***************************************************************************)
(* Bounds and input sets.                                                  *)
(***************************************************************************)
\* Completions of the LLM, in one behaviour, that are drawn freely from
\* VariedCompletions; every other completion that requests tools is
\* PlainCompletion.
MaxVaried == 1

\* The tasks that serve a request, and the session ids uuid4 gives, in the
\* order they are taken.  A task serves one request; Spec has the one task
\* of Spawned.
Procs == {1, 2}
Spawned == {1}
SessionIds == {1, 2}
UserMessages == {<<"What", "are", "the", "upfront", "costs?">>}

max_iterations == 5
chunk_size == 10

SYSTEM_PROMPT == <<"You are a friendly and empathetic mortgage advisor">>

ShortText == <<"Let", "me", "check.">>
LongText == <<"For", "a", "property", "of", "1.5M", "AED", "you", "pay",
              "about", "105,000", "AED", "upfront.">>

\* The raw argument texts and tool calls the LLM sends.
Object(d) == JsonOf(Dict(d))
Chars1500000 == <<"1", "5", "0", "0", "0", "0", "0">>

ToolCallKind(name, arguments) == [name |-> name, arguments |-> arguments]

PlainKind ==
    ToolCallKind("calculate_upfront_costs", Object(KV("property_price", Num(1500000))))
ZeroPriceKind ==
    ToolCallKind("check_ltv", Object(KV("property_price", Num(0))
                                     @@ KV("down_payment", Num(300000))))
UnknownKind == ToolCallKind("get_weather", Object(EmptyDict))
ArrayKind == ToolCallKind("check_ltv", JsonOf(List))
NullKind == ToolCallKind("check_ltv", JsonOf(None))
NotJsonKind == ToolCallKind("calculate_emi", NotJson)
StringKind ==
    ToolCallKind("calculate_upfront_costs",
                 Object(KV("property_price", Str(Chars1500000))))
WordKind ==
    ToolCallKind("calculate_upfront_costs",
                 Object(KV("property_price", Str(<<"a", "b", "c">>))))
FullDownKind ==
    ToolCallKind("check_ltv", Object(KV("property_price", Num(2000000))
                                     @@ KV("down_payment", Num(2000000))))
NoRateKind ==
    ToolCallKind("calculate_emi", Object(KV("loan_amount", Num(1000000))
                                         @@ KV("tenure_years", Num(25))))
LtvKind ==
    ToolCallKind("check_ltv", Object(KV("property_price", Num(2000000))
                                     @@ KV("down_payment", Num(300000))))
BuyRentKind ==
    ToolCallKind("buy_vs_rent_analysis",
                 Object(KV("monthly_rent", Num(8000))
                        @@ KV("property_price", Num(2000000))
                        @@ KV("stay_years", Num(4))
                        @@ KV("income", Num(40000))
                        @@ KV("down_payment", Num(400000))))

\* An argument the calculator has no parameter for.
ExtraKind ==
    ToolCallKind("calculate_upfront_costs",
                 Object(KV("property_price", Num(1500000))
                        @@ KV("currency", Str(<<"A", "E", "D">>))))
\* A value of the wrong type that the validator does not look at.
TextTenureKind ==
    ToolCallKind("calculate_emi",
                 Object(KV("loan_amount", Num(1000000))
                        @@ KV("interest_rate", Num(45))
                        @@ KV("tenure_years", Str(<<"l", "o", "n", "g">>))))

ToolCallKinds ==
    {PlainKind, ZeroPriceKind, UnknownKind, ArrayKind, NotJsonKind, StringKind,
     WordKind, FullDownKind, NoRateKind, LtvKind, BuyRentKind, NullKind,
     ExtraKind, TextTenureKind}
\* The kinds that occur together in one completion.
PairKinds == {PlainKind, ZeroPriceKind, UnknownKind, ArrayKind}

ToolCallLists ==
    {<<k>> : k \in ToolCallKinds} \cup {<<j, k>> : j \in PairKinds, k \in PairKinds}

\* message.tool_calls: the LLM service gives each call a correlation id of
\* its own, here the round and the position in the completion.
WithIds(kinds, round) ==
    [i \in 1..Len(kinds) |->
        [id |-> <<round, i>>, name |-> kinds[i].name, arguments |-> kinds[i].arguments]]

Completion(content, tool_calls) == [content |-> content, tool_calls |-> tool_calls]
NoCompletion == Completion(<< >>, << >>)

FinalCompletions == {Completion(c, << >>) : c \in {<< >>, ShortText, LongText}}
PlainCompletion(round) == Completion(<< >>, WithIds(<<PlainKind>>, round))
\* The tool calls that come with text.
TextKinds == {<<PlainKind>>, <<ZeroPriceKind>>, <<PlainKind, ZeroPriceKind>>}
VariedCompletions(round) ==
    {Completion(<< >>, WithIds(ks, round)) : ks \in ToolCallLists}
    \cup {Completion(ShortText, WithIds(ks, round)) : ks \in TextKinds}

(***************************************************************************)
(* The session store (state.py).  created_at and the timestamp of a turn   *)
(* are the wall clock's and are left out.                                  *)
(***************************************************************************)
NewSession == [messages |-> << >>, user_data |-> EmptyDict]

session_exists(conv, session_id) == session_id \in DOMAIN conv

\* state.py:43-44 and 81-82: the ValueError of add_message and
\* update_user_data.
NotFound(conv, session_id) == session_id \notin DOMAIN conv

add_message_aliased(conv, session_id, role, content) ==
    [s \in DOMAIN conv |->
        [conv[s] EXCEPT !.messages = Append(@, [role |-> role, content |-> content])]]

add_message_replacing(conv, session_id, role, content) ==
    [conv EXCEPT ![session_id].messages =
        IF @ = << >> THEN <<[role |-> role, content |-> content]>>
        ELSE [@ EXCEPT ![Len(@)] = [role |-> role, content |-> content]]]

add_message_prepending(conv, session_id, role, content) ==
    [conv EXCEPT ![session_id].messages = <<[role |-> role, content |-> content]>> \o @]

add_message_creating(conv, session_id, role, content) ==
    IF NotFound(conv, session_id)
    THEN (session_id :> [messages |-> <<[role |-> role, content |-> content]>>,
                         user_data |-> EmptyDict]) @@ conv
    ELSE [conv EXCEPT ![session_id].messages =
            Append(@, [role |-> role, content |-> content])]

\* The store after add_message; it is left as it is where add_message raises.
add_message(conv, session_id, role, content) ==
    IF NotFound(conv, session_id) THEN conv
    ELSE [conv EXCEPT ![session_id].messages =
            Append(@, [role |-> role, content |-> content])]

\* The store after update_user_data: dict.update, the new values win.
update_user_data(conv, session_id, data) ==
    IF NotFound(conv, session_id) THEN conv
    ELSE [conv EXCEPT ![session_id].user_data = data @@ @]

get_history(conv, session_id) ==
    IF session_id \notin DOMAIN conv THEN << >>
    ELSE [i \in 1..Len(conv[session_id].messages) |->
            [role |-> conv[session_id].messages[i].role,
             content |-> conv[session_id].messages[i].content]]

(***************************************************************************)
(* One tool round of stream_chat_response (main.py:201-284): what it does  *)
(* to the locals messages and tool_results_list, and the calculator calls  *)
(* it makes.                                                               *)
(***************************************************************************)
\* main.py:207-212: [raised, arguments]; raised where
\* convert_strings_to_numbers is given a value without .items().
LoadArguments(tool_call) ==
    LET loaded == json_loads(tool_call.arguments)
    IN  IF ~loaded.ok THEN [raised |-> FALSE, arguments |-> EmptyDict]
        ELSE IF loaded.value.t # "dict" THEN [raised |-> TRUE, arguments |-> EmptyDict]
        ELSE [raised |-> FALSE, arguments |-> convert_strings_to_numbers(loaded.value.d)]

\* main.py:205-220: each tool call with its arguments and the validator's answer.
CheckedCall(tool_call, arguments) ==
    [tool_call |-> tool_call, tool_name |-> tool_call.name, arguments |-> arguments,
     check |-> validate_tool_arguments(tool_call.name, Dict(arguments))]

Checked(tool_calls) ==
    [i \in 1..Len(tool_calls) |->
        CheckedCall(tool_calls[i], LoadArguments(tool_calls[i]).arguments)]

ToolCallData(tool_call) ==
    [id |-> tool_call.id, type |-> "function",
     function |-> [name |-> tool_call.name, arguments |-> tool_call.arguments]]

ToolMessage(tool_call, result) ==
    [role |-> "tool", tool_call_id |-> tool_call.id, content |-> json_dumps(result)]

TracedResult(tool_name, arguments, result) ==
    [tool_name |-> tool_name, arguments |-> Dict(arguments), result |-> result]

SkippedResult(error_msg) == [error |-> error_msg, skipped |-> TRUE]

\* The assistant message of the round and the tool messages, in the order
\* main.py:253-284 appends them to messages.
RoundMessages(tool_messages, assistant_message) ==
    tool_messages \o assistant_message

NoSkippedMessages(invalid_tool_calls) == << >>

\* main.py:260-276: the tool messages of the tool calls that were skipped.
SkippedMessages(invalid_tool_calls) ==
    [i \in 1..Len(invalid_tool_calls) |->
        ToolMessage(invalid_tool_calls[i].tool_call,
                    SkippedResult(invalid_tool_calls[i].check.error_msg))]

CallsDataSkippedFirst(valid_tool_calls, invalid_tool_calls) ==
    [i \in 1..Len(invalid_tool_calls) |-> ToolCallData(invalid_tool_calls[i].tool_call)]
    \o [i \in 1..Len(valid_tool_calls) |-> ToolCallData(valid_tool_calls[i].tool_call)]

\* main.py:229-266: tool_calls_data, appended to in the loop over the valid
\* tool calls and then in the loop over the invalid ones.
CallsData(valid_tool_calls, invalid_tool_calls) ==
    [i \in 1..Len(valid_tool_calls) |-> ToolCallData(valid_tool_calls[i].tool_call)]
    \o [i \in 1..Len(invalid_tool_calls) |-> ToolCallData(invalid_tool_calls[i].tool_call)]

\* main.py:232-284: the results of the round are appended.
Appended(valid_tool_calls, invalid_tool_calls, executed, assistant_content, messages, tool_results_list) ==
    LET skipped_results ==
            [i \in 1..Len(invalid_tool_calls) |->
                TracedResult(invalid_tool_calls[i].tool_name,
                             invalid_tool_calls[i].arguments,
                             SkippedResult(invalid_tool_calls[i].check.error_msg))]
        executed_results ==
            [i \in 1..Len(valid_tool_calls) |->
                TracedResult(valid_tool_calls[i].tool_name,
                             valid_tool_calls[i].arguments, executed[i].result)]
        tool_calls_data == CallsData(valid_tool_calls, invalid_tool_calls)
        tool_messages ==
            [i \in 1..Len(valid_tool_calls) |->
                ToolMessage(valid_tool_calls[i].tool_call, executed[i].result)]
            \o SkippedMessages(invalid_tool_calls)
        assistant_message ==
            <<[role |-> "assistant", content |-> assistant_content,
               tool_calls |-> tool_calls_data]>>
    IN  [raised |-> \E i \in 1..Len(executed) : executed[i].raised,
         messages |-> messages \o RoundMessages(tool_messages, assistant_message),
         tool_results_list |-> tool_results_list \o skipped_results \o executed_results,
         calls |-> Flatten([i \in 1..Len(executed) |-> executed[i].calls])]

\* main.py:232-238: the valid tool calls are executed.
Executed(valid_tool_calls) ==
    [i \in 1..Len(valid_tool_calls) |->
        execute_tool(valid_tool_calls[i].tool_name, Dict(valid_tool_calls[i].arguments))]

AlwaysValidCall(c) == TRUE

\* main.py:222: the validator's answer for a tool call.
IsValidCall(c) == c.check.is_valid

\* main.py:222-226: the tool calls are split by the validator's answer.
Split(checked, assistant_content, messages, tool_results_list) ==
    Appended(SelectSeq(checked, IsValidCall),
             SelectSeq(checked, LAMBDA c : ~IsValidCall(c)),
             Executed(SelectSeq(checked, IsValidCall)),
             assistant_content, messages, tool_results_list)

ToolRound(tool_calls, assistant_content, messages, tool_results_list) ==
    IF \E i \in 1..Len(tool_calls) : LoadArguments(tool_calls[i]).raised
    THEN [raised |-> TRUE, messages |-> messages,
          tool_results_list |-> tool_results_list, calls |-> << >>]
    ELSE Split(Checked(tool_calls), assistant_content, messages, tool_results_list)

(***************************************************************************)
(* stream_chat_response (main.py:146-341) as a state machine.  The         *)
(* generator runs from one yield to the next without being interrupted     *)
(* (the LLM call is a blocking call); pc names the place it has reached:   *)
(*   idle       no request yet                                             *)
(*   not_found  the request was answered 404                               *)
(*   start      the generator exists and has not run yet                   *)
(*   loop       the head of the while loop (main.py:171)                   *)
(*   tools      a completion with tool calls and no text (main.py:201)     *)
(*   after_loop main.py:301                                                *)
(*   save       main.py:312                                                *)
(*   y_interim  suspended at the yield of main.py:198                      *)
(*   y_chunk    suspended at the yield of main.py:296                      *)
(*   y_fmt      suspended at the yield of main.py:310                      *)
(*   y_basic    suspended at the yield of main.py:328                      *)
(*   y_done     suspended at the yield of main.py:331                      *)
(*   y_error    suspended at the yield of main.py:341                      *)
(*   finished   the generator has returned                                 *)
(*   cancelled  the generator was closed at a yield                        *)
(*   returned   the task called handle_tool_calls instead                  *)
(***************************************************************************)
IdleLocal ==
    [pc |-> "idle", session_id |-> 0, user_message |-> << >>, messages |-> << >>,
     full_response |-> << >>, iteration |-> 0, tool_results_list |-> << >>,
     message |-> NoCompletion, text |-> << >>, i |-> 0,
     \* history of the call: the events yielded, the LLM calls made, the
     \* transcript of the last LLM call
     \* the round whose LLM call failed, if one did
     events |-> << >>, llm_calls |-> 0, sent |-> << >>, failed_round |-> 0]

NotSpawned == [IdleLocal EXCEPT !.pc = "off"]

BusyPcs == {"loop", "tools", "after_loop", "save"}
ContentYields == {"y_interim", "y_chunk", "y_fmt", "y_basic"}

\* No other task is between two yields.
MayRun(p) == \A q \in Procs \ {p} : local[q].pc \notin BusyPcs
NoneBusy == \A q \in Procs : local[q].pc \notin BusyPcs

ContentEvent(content) == [type |-> "content", content |-> content]
DoneEvent == [type |-> "done", content |-> << >>]
ErrorEvent == [type |-> "error", content |-> <<"Error processing chat">>]

basic_response ==
    <<"I've calculated the information you requested.",
      "Please let me know if you need any clarification.">>

Min(a, b) == IF a < b THEN a ELSE b
\* text[i : i + chunk_size], for an offset i counted from 0
Chunk(text, i) == SubSeq(text, i + 1, Min(i + chunk_size, Len(text)))

ExceptAndSave(l) == [l EXCEPT !.events = Append(@, ErrorEvent), !.pc = "save"]
ExceptAndRetry(l) == [l EXCEPT !.events = Append(@, ErrorEvent), !.pc = "loop"]

\* The except clause (main.py:333-341): the error event is yielded.
Except(l) == [l EXCEPT !.events = Append(@, ErrorEvent), !.pc = "y_error"]

FirstChunkUncounted(l, text, pc) ==
    [l EXCEPT !.text = text, !.i = 0,
              !.events = Append(@, ContentEvent(Chunk(text, 0))),
              !.pc = pc]

\* The first chunk of text is added to full_response and yielded.
FirstChunk(l, text, pc) ==
    [l EXCEPT !.text = text, !.i = 0,
              !.full_response = @ \o Chunk(text, 0),
              !.events = Append(@, ContentEvent(Chunk(text, 0))),
              !.pc = pc]

Init ==
    /\ conversations = EmptyDict
    /\ local = [p \in Procs |-> IF p \in Spawned THEN IdleLocal ELSE NotSpawned]
    /\ calculator_calls = {}
    /\ handled = [raised |-> FALSE, assistant_message |-> << >>, tool_results |-> << >>]
    /\ budget = MaxVaried

\* POST /chat/new (main.py:139-143, state.py:17-30)
CreateSession ==
    /\ NoneBusy
    /\ \E session_id \in SessionIds \ DOMAIN conversations :
          /\ \A other \in SessionIds \ DOMAIN conversations : session_id <= other
          /\ conversations' = (session_id :> NewSession) @@ conversations
    /\ UNCHANGED <<local, calculator_calls, handled, budget>>

\* POST /chat (main.py:344-367): 404 for a session that does not exist,
\* else the response is the stream of a new stream_chat_response call.
chat(p, session_id, user_message) ==
    /\ local[p].pc = "idle"
    /\ \A q \in Procs : local[q].pc = "idle" => p <= q
    /\ NoneBusy
    /\ local' = [local EXCEPT ![p] =
          [IdleLocal EXCEPT !.session_id = session_id,
                            !.user_message = user_message,
                            !.pc = IF session_exists(conversations, session_id)
                                   THEN "start" ELSE "not_found"]]
    /\ UNCHANGED <<conversations, calculator_calls, handled, budget>>

\* main.py:162-164: the system prompt comes first.
WithSystemPrompt(history) ==
    IF history = << >> \/ history[1].role # "system"
    THEN <<[role |-> "system", content |-> SYSTEM_PROMPT]>> \o history
    ELSE history

\* main.py:154-169: the call begins with the user turn.
Begin(p) ==
    /\ local[p].pc = "start"
    /\ MayRun(p)
    /\ conversations' =
          add_message(conversations, local[p].session_id, "user", local[p].user_message)
    /\ local' = [local EXCEPT ![p] =
          IF NotFound(conversations, local[p].session_id) THEN Except(local[p])
          ELSE [local[p] EXCEPT
                   !.messages =
                       WithSystemPrompt(get_history(conversations', local[p].session_id)),
                   !.pc = "loop"]]
    /\ UNCHANGED <<calculator_calls, handled, budget>>

\* main.py:186-199 and 288-299: the completion is inspected, up to the
\* first yield.
Inspect(l, completion) ==
    LET m == [l EXCEPT !.message = completion]
    IN  IF completion.tool_calls # << >>
        THEN IF completion.content # << >>
             THEN [m EXCEPT !.events = Append(@, ContentEvent(completion.content)),
                            !.pc = "y_interim"]
             ELSE [m EXCEPT !.pc = "tools"]
        ELSE IF completion.content # << >>
             THEN FirstChunk(m, completion.content, "y_chunk")
             ELSE [m EXCEPT !.pc = "after_loop"]

LoopingOnceMore(l) == l.iteration <= max_iterations

\* main.py:171: the condition of the while loop.
Looping(l) == l.iteration < max_iterations

\* What the LLM may answer in a round: a varied completion while the budget
\* lasts.
Varied(completion) ==
    IF completion.tool_calls = << >> \/ completion = PlainCompletion(completion.tool_calls[1].id[1])
    THEN 0 ELSE 1
Completions(round) ==
    FinalCompletions \cup {PlainCompletion(round)}
    \cup (IF budget > 0 THEN VariedCompletions(round) ELSE {})

\* main.py:171-184: one more round; the LLM call fails or returns.
CallLLM(p) ==
    /\ local[p].pc = "loop"
    /\ MayRun(p)
    /\ Looping(local[p])
    /\ LET l == [local[p] EXCEPT !.iteration = @ + 1, !.llm_calls = @ + 1,
                                 !.sent = local[p].messages]
       IN  \/ /\ local' = [local EXCEPT ![p] =
                                Except([l EXCEPT !.failed_round = l.iteration])]
              /\ budget' = budget
           \/ \E completion \in Completions(l.iteration) :
                 /\ local' = [local EXCEPT ![p] = Inspect(l, completion)]
                 /\ budget' = budget - Varied(completion)
    /\ UNCHANGED <<conversations, calculator_calls, handled>>

Spinning(p) ==
    /\ local[p].pc = "loop"
    /\ MayRun(p)
    /\ ~Looping(local[p])
    /\ UNCHANGED vars

\* main.py:171: the loop ends after max_iterations rounds.
ExitLoop(p) ==
    /\ local[p].pc = "loop"
    /\ MayRun(p)
    /\ ~Looping(local[p])
    /\ local' = [local EXCEPT ![p].pc = "after_loop"]
    /\ UNCHANGED <<conversations, calculator_calls, handled, budget>>

\* main.py:287 and 333: after the round the loop continues, unless it raised.
Continue(p, l, round) ==
    /\ local' = [local EXCEPT ![p] =
                   IF round.raised THEN Except(l)
                   ELSE [l EXCEPT !.messages = round.messages,
                                  !.tool_results_list = round.tool_results_list,
                                  !.pc = "loop"]]
    /\ calculator_calls' = calculator_calls \cup Range(round.calls)

\* main.py:199-287: the tool round of the completion.
ExecuteTools(p) ==
    /\ local[p].pc \in {"y_interim", "tools"}
    /\ MayRun(p)
    /\ Continue(p, [local[p] EXCEPT !.full_response = @ \o local[p].message.content],
                 ToolRound(local[p].message.tool_calls, local[p].message.content,
                           local[p].messages, local[p].tool_results_list))
    /\ UNCHANGED <<conversations, handled, budget>>

\* main.py:293-299 and 307-310: the generator is resumed after a chunk.
StreamChunk(p) ==
    /\ local[p].pc \in {"y_chunk", "y_fmt"}
    /\ MayRun(p)
    /\ LET l == local[p]
           i == l.i + chunk_size
       IN  local' = [local EXCEPT ![p] =
                IF i < Len(l.text)
                THEN [l EXCEPT !.i = i,
                               !.full_response = @ \o Chunk(l.text, i),
                               !.events = Append(@, ContentEvent(Chunk(l.text, i)))]
                ELSE [l EXCEPT !.pc = IF l.pc = "y_chunk" THEN "after_loop" ELSE "save"]]
    /\ UNCHANGED <<conversations, calculator_calls, handled, budget>>

\* main.py:301-310: the summary of the tool results, if there is no text.
AfterLoop(p) ==
    /\ local[p].pc = "after_loop"
    /\ MayRun(p)
    /\ LET l == local[p]
           formatted_response == format_tool_results_response(l.tool_results_list)
       IN  local' = [local EXCEPT ![p] =
                IF l.full_response = << >> /\ l.tool_results_list # << >>
                   /\ formatted_response # << >>
                THEN FirstChunk(l, formatted_response, "y_fmt")
                ELSE [l EXCEPT !.pc = "save"]]
    /\ UNCHANGED <<conversations, calculator_calls, handled, budget>>

SaveTextOnly(p) ==
    /\ local[p].pc = "save"
    /\ MayRun(p)
    /\ conversations' =
          IF local[p].full_response = << >> THEN conversations
          ELSE add_message(conversations, local[p].session_id, "assistant",
                           local[p].full_response)
    /\ local' = [local EXCEPT ![p] =
          [local[p] EXCEPT !.events = Append(@, DoneEvent), !.pc = "y_done"]]
    /\ UNCHANGED <<calculator_calls, handled, budget>>

SaveTranscript(p) ==
    /\ local[p].pc = "save"
    /\ MayRun(p)
    /\ conversations' =
          IF NotFound(conversations, local[p].session_id) THEN conversations
          ELSE [conversations EXCEPT ![local[p].session_id].messages =
                   Tail(local[p].messages)]
    /\ local' = [local EXCEPT ![p] =
          [local[p] EXCEPT !.events = Append(@, DoneEvent), !.pc = "y_done"]]
    /\ UNCHANGED <<calculator_calls, handled, budget>>

\* main.py:312-331: the assistant turn is stored and done is sent.
Save(p) ==
    /\ local[p].pc = "save"
    /\ MayRun(p)
    /\ LET l == local[p]
       IN  IF l.full_response # << >>
           THEN /\ conversations' =
                      add_message(conversations, l.session_id, "assistant", l.full_response)
                /\ local' = [local EXCEPT ![p] =
                      [l EXCEPT !.events = Append(@, DoneEvent), !.pc = "y_done"]]
           ELSE IF l.tool_results_list # << >>
           THEN /\ conversations' =
                      add_message(conversations, l.session_id, "assistant", basic_response)
                /\ local' = [local EXCEPT ![p] =
                      [l EXCEPT !.events = Append(@, ContentEvent(basic_response)),
                                !.pc = "y_basic"]]
           ELSE /\ conversations' = conversations
                /\ local' = [local EXCEPT ![p] =
                      [l EXCEPT !.events = Append(@, DoneEvent), !.pc = "y_done"]]
    /\ UNCHANGED <<calculator_calls, handled, budget>>

\* main.py:328-331: resumed after the basic message, the generator sends done.
SendDone(p) ==
    /\ local[p].pc = "y_basic"
    /\ MayRun(p)
    /\ local' = [local EXCEPT ![p] =
          [local[p] EXCEPT !.events = Append(@, DoneEvent), !.pc = "y_done"]]
    /\ UNCHANGED <<conversations, calculator_calls, handled, budget>>

\* Resumed after done or error, the generator returns.
Finish(p) ==
    /\ local[p].pc \in {"y_done", "y_error"}
    /\ MayRun(p)
    /\ local' = [local EXCEPT ![p].pc = "finished"]
    /\ UNCHANGED <<conversations, calculator_calls, handled, budget>>

CancelAndSave(p) ==
    /\ local[p].pc \in ContentYields
    /\ MayRun(p)
    /\ local' = [local EXCEPT ![p].pc = "cancelled"]
    /\ conversations' =
          IF local[p].full_response = << >> THEN conversations
          ELSE add_message(conversations, local[p].session_id, "assistant",
                           local[p].full_response)
    /\ UNCHANGED <<calculator_calls, handled, budget>>

\* The client goes away: the generator is closed at the yield it is
\* suspended at, and nothing after that yield runs.
Cancel(p) ==
    /\ local[p].pc \in ContentYields
    /\ MayRun(p)
    /\ local' = [local EXCEPT ![p].pc = "cancelled"]
    /\ UNCHANGED <<conversations, calculator_calls, handled, budget>>

(***************************************************************************)
(* handle_tool_calls (agent.py:290-322), on a completion.                  *)
(***************************************************************************)
\* agent.py:308-311
LoadRaw(tool_call) ==
    LET loaded == json_loads(tool_call.arguments)
    IN  IF loaded.ok THEN loaded.value ELSE Dict(EmptyDict)

\* agent.py:313-322: the results are collected; an exception of
\* execute_tool ends the call, after the calculator calls made before it.
Collected(completion, executed) ==
    LET tool_calls == completion.tool_calls
        raising == {i \in 1..Len(tool_calls) : executed[i].raised}
        upto == IF raising = {} THEN Len(tool_calls)
                ELSE (CHOOSE i \in raising : \A j \in raising : i <= j) - 1
    IN  [raised |-> raising # {},
         assistant_message |-> completion.content,
         tool_results |-> IF raising # {} THEN << >>
                          ELSE [i \in 1..Len(tool_calls) |->
                                  [tool_call_id |-> tool_calls[i].id,
                                   tool_name |-> tool_calls[i].name,
                                   result |-> executed[i].result]],
         calls |-> Flatten([i \in 1..upto |-> executed[i].calls])]

handle_tool_calls(completion) ==
    Collected(completion,
              [i \in 1..Len(completion.tool_calls) |->
                  execute_tool(completion.tool_calls[i].name,
                               LoadRaw(completion.tool_calls[i]))])

Handle(h) ==
    /\ handled' = [raised |-> h.raised, assistant_message |-> h.assistant_message,
                   tool_results |-> h.tool_results]
    /\ calculator_calls' = calculator_calls \cup Range(h.calls)

\* A task calls handle_tool_calls on the completion it got.
HandleToolCalls(p) ==
    /\ local[p].pc = "idle"
    /\ NoneBusy
    /\ \E completion \in Completions(1) :
          /\ Handle(handle_tool_calls(completion))
          /\ budget' = budget - Varied(completion)
    /\ local' = [local EXCEPT ![p].pc = "returned"]
    /\ UNCHANGED conversations

Next ==
    \/ CreateSession
    \/ \E p \in Procs, session_id \in SessionIds, user_message \in UserMessages :
          chat(p, session_id, user_message)
    \/ \E p \in Procs : Begin(p)
    \/ \E p \in Procs : CallLLM(p)
    \/ \E p \in Procs : ExitLoop(p)
    \/ \E p \in Procs : ExecuteTools(p)
    \/ \E p \in Procs : StreamChunk(p)
    \/ \E p \in Procs : AfterLoop(p)
    \/ \E p \in Procs : Save(p)
    \/ \E p \in Procs : SendDone(p)
    \/ \E p \in Procs : Finish(p)
    \/ \E p \in Procs : Cancel(p)
    \/ \E p \in Procs : HandleToolCalls(p)

Spec == Init /\ [][Next]_vars

(***************************************************************************)
(* A request whose client reads the stream to its end: the generator is    *)
(* resumed after every event (no Cancel), and every LLM call returns or    *)
(* fails, so a step of the generator that can be taken is taken.  The LLM  *)
(* answers with the completions that need no budget: in any round the      *)
(* valid tool call, a final text, no text at all, or a failure.  With      *)
(* these every tool round has a result to format, so the yield of the      *)
(* basic message (main.py:326) is never reached and SendDone, the step     *)
(* that resumes from it, is no step of these behaviours.                   *)
(***************************************************************************)
LiveInit ==
    /\ conversations = EmptyDict
    /\ local = [p \in Procs |-> IF p \in Spawned THEN IdleLocal ELSE NotSpawned]
    /\ calculator_calls = {}
    /\ handled = [raised |-> FALSE, assistant_message |-> << >>, tool_results |-> << >>]
    /\ budget = 0

Resume(p) ==
    \/ Begin(p)
    \/ CallLLM(p)
    \/ ExitLoop(p)
    \/ ExecuteTools(p)
    \/ StreamChunk(p)
    \/ AfterLoop(p)
    \/ Save(p)
    \/ Finish(p)

LiveNext ==
    \/ CreateSession
    \/ \E p \in Procs, session_id \in SessionIds, user_message \in UserMessages :
          chat(p, session_id, user_message)
    \/ \E p \in Procs : Resume(p)

LiveSpec == LiveInit /\ [][LiveNext]_vars /\ \A p \in Procs : WF_vars(Resume(p))

(***************************************************************************)
(* The store under two requests at a time.  The two tasks are there from   *)
(* the start, the p-th request has a message of its own, and the LLM       *)
(* answers with the completions that need no budget.  Besides POST /chat,  *)
(* the operations of the store and stream_chat_response are called as      *)
(* they are, with an identifier that need not name a session.              *)
(***************************************************************************)
RequestMessages ==
    [p \in Procs |-> IF p = 1 THEN <<"What", "are", "the", "upfront", "costs?">>
                     ELSE <<"Can", "I", "afford", "it?">>]

\* The facts a caller merges.
Facts ==
    {KV("income", Num(40000)) @@ KV("property_price", Num(2000000))}

StoreInit ==
    /\ conversations = EmptyDict
    /\ local = [p \in Procs |-> IdleLocal]
    /\ calculator_calls = {}
    /\ handled = [raised |-> FALSE, assistant_message |-> << >>, tool_results |-> << >>]
    /\ budget = 0

\* state.py:73-84, called between the steps of the requests.
UpdateUserData(session_id, data) ==
    /\ NoneBusy
    /\ conversations' = update_user_data(conversations, session_id, data)
    /\ UNCHANGED <<local, calculator_calls, handled, budget>>

\* main.py:146: stream_chat_response is called with the identifier as it is.
Advance(p, session_id, user_message) ==
    /\ local[p].pc = "idle"
    /\ \A q \in Procs : local[q].pc = "idle" => p <= q
    /\ NoneBusy
    /\ ~session_exists(conversations, session_id)
    /\ local' = [local EXCEPT ![p] =
          [IdleLocal EXCEPT !.session_id = session_id,
                            !.user_message = user_message,
                            !.pc = "start"]]
    /\ UNCHANGED <<conversations, calculator_calls, handled, budget>>

StoreNext ==
    \/ CreateSession
    \/ \E p \in Procs, session_id \in SessionIds :
          chat(p, session_id, RequestMessages[p])
    \/ \E p \in Procs, session_id \in SessionIds :
          Advance(p, session_id, RequestMessages[p])
    \/ \E session_id \in SessionIds, data \in Facts : UpdateUserData(session_id, data)
    \/ \E p \in Procs : Begin(p)
    \/ \E p \in Procs : CallLLM(p)
    \/ \E p \in Procs : ExitLoop(p)
    \/ \E p \in Procs : ExecuteTools(p)
    \/ \E p \in Procs : StreamChunk(p)
    \/ \E p \in Procs : AfterLoop(p)
    \/ \E p \in Procs : Save(p)
    \/ \E p \in Procs : Finish(p)
    \/ \E p \in Procs : Cancel(p)

StoreSpec == StoreInit /\ [][StoreNext]_vars

(***************************************************************************)
(* The validator on its own: validate_tool_arguments is called once, with  *)
(* a tool name and an argument mapping of the sets below.                  *)
(***************************************************************************)
\* A value for an argument: positive, zero, negative, no number.
ArgumentValues == {Num(300000), Num(0), Num(-1), Str(<<"a", "b", "c">>)}

ValidatedNames == ToolNames \cup {"get_weather"}

\* The mappings from some of the parameter names of the tool to the values.
ArgumentMappings(tool_name) ==
    LET params == IF tool_name \in DOMAIN TOOL_FUNCTIONS
                  THEN Range(TOOL_FUNCTIONS[tool_name]) ELSE {}
    IN  UNION {[given -> ArgumentValues] : given \in SUBSET params}

ValidatorInit ==
    /\ conversations = EmptyDict
    /\ local = [p \in Procs |-> NotSpawned]
    /\ calculator_calls = {}
    /\ budget = 0
    /\ \E tool_name \in ValidatedNames :
          \E arguments \in ArgumentMappings(tool_name) :
             handled = [tool_name |-> tool_name, arguments |-> Dict(arguments)]

\* agent.py:170-218: the validator is called and returns.
ValidateToolArguments ==
    /\ "check" \notin DOMAIN handled
    /\ handled' = [tool_name |-> handled.tool_name, arguments |-> handled.arguments,
                   check |-> validate_tool_arguments(handled.tool_name, handled.arguments)]
    /\ UNCHANGED <<conversations, local, calculator_calls, budget>>

ValidatorNext == ValidateToolArguments

ValidatorSpec == ValidatorInit /\ [][ValidatorNext]_vars

(***************************************************************************)
(* The dispatcher on its own: execute_tool is called once, with one of the *)
(* four tools and a mapping from some of its parameter names to numbers of *)
(* the sets below.                                                         *)
(***************************************************************************)
Numbers(values) == {Num(v) : v \in values}

\* The numbers tried for each parameter; interest_rate in tenths of a percent.
ToolValues ==
    [calculate_emi |->
        [loan_amount |-> Numbers({1000000, 1600000}),
         interest_rate |-> Numbers({0, 45}),
         tenure_years |-> Numbers({0, 1, 25, 26})],
     check_ltv |->
        [property_price |-> Numbers({100000, 2000000}),
         down_payment |-> Numbers({0, 19990, 19996, 20000, 100000, 300000, 400000})],
     calculate_upfront_costs |->
        [property_price |-> Numbers({0, 1500000})],
     buy_vs_rent_analysis |->
        [monthly_rent |-> Numbers({100, 5000, 8000}),
         property_price |-> Numbers({1200000, 2000000}),
         stay_years |-> Numbers({2, 3, 5, 6}),
         income |-> Numbers({20000, 40000}),
         down_payment |-> Numbers({240000, 300000, 400000, 2000000}),
         interest_rate |-> Numbers({0, 45})]]

ToolMappings(tool_name) ==
    LET values == ToolValues[tool_name]
    IN  UNION {{arguments \in [given -> UNION {values[param] : param \in given}] :
                   \A param \in given : arguments[param] \in values[param]} :
               given \in SUBSET DOMAIN values}

ToolInit ==
    /\ conversations = EmptyDict
    /\ local = [p \in Procs |-> NotSpawned]
    /\ calculator_calls = {}
    /\ budget = 0
    /\ \E tool_name \in ToolNames :
          \E arguments \in ToolMappings(tool_name) :
             handled = [tool_name |-> tool_name, arguments |-> Dict(arguments)]

Dispatched(returned) ==
    /\ handled' = [tool_name |-> handled.tool_name, arguments |-> handled.arguments,
                   raised |-> returned.raised, result |-> returned.result]
    /\ calculator_calls' = calculator_calls \cup Range(returned.calls)

\* agent.py:221-245: execute_tool is called and returns.
ExecuteTool ==
    /\ "result" \notin DOMAIN handled
    /\ Dispatched(execute_tool(handled.tool_name, handled.arguments))
    /\ UNCHANGED <<conversations, local, budget>>

ToolNext == ExecuteTool

ToolSpec == ToolInit /\ [][ToolNext]_vars

(***************************************************************************)
(* The properties.                                                         *)
(***************************************************************************)
HasToolCalls(m) == "tool_calls" \in DOMAIN m
IsToolMessage(m) == m.role = "tool"
InvocationIds(m) == {m.tool_calls[j].id : j \in 1..Len(m.tool_calls)}
\* The call ended with done.
Done(l) == l.events # << >> /\ l.events[Len(l.events)].type = "done"
\* The text of the content events.
Streamed(events) ==
    Flatten([i \in 1..Len(events) |->
                IF events[i].type = "content" THEN events[i].content ELSE << >>])
\* The stored turns of the session of a call.
Stored(l) == conversations[l.session_id].messages
AssistantTurns(l) == SelectSeq(Stored(l), LAMBDA m : m.role = "assistant")
\* The tool call of an assistant message, as the LLM sent it.
Invocation(data) ==
    [id |-> data.id, name |-> data.function.name, arguments |-> data.function.arguments]

\* C1: in one call of stream_chat_response the LLM is called at most 5
\* times, whatever the completions are, also when each of them has tool
\* calls.
C1_AtMostFiveCalls == \A p \in Procs : local[p].llm_calls <= 5

\* five rounds, each with tool calls, and the call ended with done
C1_Witness ==
    \E p \in Procs :
        /\ local[p].llm_calls = 5
        /\ Len(local[p].tool_results_list) >= 5
        /\ local[p].pc = "finished"
        /\ Done(local[p])

\* C2: in the transcript sent to the LLM in round 2 or later, every id of
\* a tool call of an assistant message is the id of exactly one tool
\* message, and every tool message has the id of exactly one tool call of
\* an assistant message; executed, skipped and unknown-tool calls alike.
C2_InvocationsPaired ==
    \A p \in Procs :
        LET sent == local[p].sent
            tools == {k \in DOMAIN sent : IsToolMessage(sent[k])}
            requests == UNION {{<<i, j>> : j \in 1..Len(sent[i].tool_calls)} :
                                  i \in {i \in DOMAIN sent : HasToolCalls(sent[i])}}
        IN  local[p].llm_calls >= 2 =>
              /\ \A r \in requests :
                    Cardinality({k \in tools :
                        sent[k].tool_call_id = sent[r[1]].tool_calls[r[2]].id}) = 1
              /\ \A k \in tools :
                    Cardinality({r \in requests :
                        sent[k].tool_call_id = sent[r[1]].tool_calls[r[2]].id}) = 1

\* a transcript sent in round 3 that has an executed, a skipped and an
\* unknown-tool call
C2_Witness ==
    \E p \in Procs :
        LET sent == local[p].sent
            tools == {k \in DOMAIN sent : IsToolMessage(sent[k])}
        IN  /\ local[p].llm_calls >= 3
            /\ \E k \in tools : "skipped" \in DOMAIN sent[k].content.json
            /\ \E k \in tools :
                  sent[k].content = json_dumps(Error(<<"Unknown tool:", "get_weather">>))
            /\ \E k \in tools : "total_upfront_costs" \in DOMAIN sent[k].content.json

\* C3: in the transcript sent to the LLM after a tool round, the assistant
\* message with the tool calls of the round comes first and the tool
\* messages of these tool calls follow it immediately; no tool message
\* comes before the assistant message that has its tool call.
C3_AssistantTurnFirst ==
    \A p \in Procs :
        LET sent == local[p].sent
        IN  local[p].llm_calls >= 2 =>
              /\ \A i \in DOMAIN sent :
                    HasToolCalls(sent[i]) =>
                        LET n == Len(sent[i].tool_calls)
                        IN  /\ i + n <= Len(sent)
                            /\ \A j \in 1..n : IsToolMessage(sent[i + j])
                            /\ {sent[i + j].tool_call_id : j \in 1..n}
                                  = InvocationIds(sent[i])
              /\ \A k \in DOMAIN sent :
                    IsToolMessage(sent[k]) =>
                        \E i \in 1..(k - 1) :
                            /\ HasToolCalls(sent[i])
                            /\ sent[k].tool_call_id \in InvocationIds(sent[i])

\* C4: the events of one call are content events followed by one terminal
\* event, done or error; a call that has ended has its terminal event, and
\* nothing is sent after it.
C4_EventOrder ==
    \A p \in Procs :
        LET events == local[p].events
        IN  /\ \A i \in 1..(Len(events) - 1) : events[i].type = "content"
            /\ local[p].pc \in {"y_done", "y_error", "finished"}
                  <=> (events # << >> /\ events[Len(events)].type \in {"done", "error"})

\* a call that ended with done after three content events
C4_Witness ==
    \E p \in Procs :
        /\ local[p].pc = "finished"
        /\ Len(local[p].events) >= 4
        /\ Done(local[p])

\* C5: a call that ends with done has appended exactly one assistant turn,
\* the text it finalized, to the stored transcript of the session, whatever
\* the text of the completions and the tool results are.
C5_OneAssistantTurn ==
    \A p \in Procs :
        Done(local[p]) =>
            /\ Len(AssistantTurns(local[p])) = 1
            /\ AssistantTurns(local[p])[1].content = Streamed(local[p].events)

\* C6: a call whose completion has no tool call and no text, with no tool
\* result recorded, sends a content event, the fallback notice, before done.
C6_FallbackNotice ==
    \A p \in Procs :
        LET l == local[p]
        IN  (/\ Done(l)
             /\ l.message.tool_calls = << >>
             /\ l.message.content = << >>
             /\ l.tool_results_list = << >>)
            => \E i \in 1..(Len(l.events) - 1) :
                  l.events[i].type = "content" /\ l.events[i].content # << >>

\* C7: when the last completion, the one without tool calls, has no text
\* and tool results were recorded, the answer streamed and stored is the
\* summary format_tool_results_response makes of the tool results, whether
\* or not an earlier completion of the call had text with its tool calls.
C7_SummaryIsTheAnswer ==
    \A p \in Procs :
        LET l == local[p]
            summary == format_tool_results_response(l.tool_results_list)
        IN  (/\ Done(l)
             /\ l.message.tool_calls = << >>
             /\ l.message.content = << >>
             /\ l.tool_results_list # << >>
             /\ summary # << >>)
            => /\ Streamed(l.events) = summary
               /\ Len(AssistantTurns(l)) = 1
               /\ AssistantTurns(l)[1].content = summary

\* C8: a tool call of the loop whose converted arguments the validator
\* rejects is never passed to a calculator; its tool message and its entry
\* of tool_results_list are the failure marked skipped that has the
\* validator's message.
C8_SkippedNeverExecuted ==
    \A p \in Procs :
        LET l == local[p]
        IN  \A i \in {i \in DOMAIN l.messages : HasToolCalls(l.messages[i])} :
              \A j \in 1..Len(l.messages[i].tool_calls) :
                LET tool_call == Invocation(l.messages[i].tool_calls[j])
                    arguments == LoadArguments(tool_call).arguments
                    check == validate_tool_arguments(tool_call.name, Dict(arguments))
                    skipped == SkippedResult(check.error_msg)
                IN  ~check.is_valid =>
                      /\ Call(tool_call.name, Dict(arguments)) \notin calculator_calls
                      /\ \E k \in DOMAIN l.messages :
                            /\ IsToolMessage(l.messages[k])
                            /\ l.messages[k].tool_call_id = tool_call.id
                            /\ l.messages[k].content = json_dumps(skipped)
                      /\ \E r \in DOMAIN l.tool_results_list :
                            l.tool_results_list[r]
                               = TracedResult(tool_call.name, arguments, skipped)

\* check_ltv with property_price 0 beside a valid tool call: the call has
\* ended, check_ltv was not called and its tool message is the skipped
\* failure with the validator's message
C8_Witness ==
    \E p \in Procs :
        /\ local[p].pc = "finished"
        /\ calculator_calls # {}
        /\ \A call \in calculator_calls : call.name # "check_ltv"
        /\ \E k \in DOMAIN local[p].messages :
              /\ IsToolMessage(local[p].messages[k])
              /\ local[p].messages[k].content =
                    json_dumps([error |-> <<"Cannot execute tool: Invalid parameter values -",
                                            "property_price", "(got", "0", ", must be positive)",
                                            ". Please ask the user for missing information before calling this tool.">>,
                                skipped |-> TRUE])

\* C9: every calculator call made, from the loop or from handle_tool_calls,
\* has a tool name and arguments that validate_tool_arguments accepts.
C9_ValidatedBeforeCall ==
    \A call \in calculator_calls :
        LET check == validate_tool_arguments(call.name, call.args)
        IN  ~check.raised /\ check.is_valid

\* handle_tool_calls on a completion with a valid and an invalid tool call:
\* one calculator call was made and one result is a failure
C9_Witness ==
    /\ Cardinality(calculator_calls) = 1
    /\ Len(handled.tool_results) = 2
    /\ \E i \in 1..2 : "error" \in DOMAIN handled.tool_results[i].result
    /\ \E i \in 1..2 : "total_upfront_costs" \in DOMAIN handled.tool_results[i].result

\* C10: when the LLM call of round k fails, the call makes no further LLM
\* call, sends one error event and no done event, and the stored transcript
\* of the session has from it the user turn only.
C10_LLMFailure ==
    \A p \in Procs :
        LET l == local[p]
        IN  l.failed_round > 0 =>
              /\ l.llm_calls = l.failed_round
              /\ Cardinality({i \in DOMAIN l.events : l.events[i].type = "error"}) = 1
              /\ \A i \in DOMAIN l.events : l.events[i].type # "done"
              /\ Stored(l) = <<[role |-> "user", content |-> l.user_message]>>

\* the LLM call of round 3 failed, after two tool rounds and a content
\* event, and the call has ended
C10_Witness ==
    \E p \in Procs :
        /\ local[p].failed_round = 3
        /\ local[p].pc = "finished"
        /\ Len(local[p].tool_results_list) >= 2
        /\ Len(local[p].events) = 2

\* C11: whatever the raw arguments of a tool call are (no JSON, JSON that
\* is no object, an object with missing or invalid fields), the call does
\* not end with an error event because of them: an error event is sent only
\* when the LLM call failed.
C11_PayloadNeverEndsCall ==
    \A p \in Procs :
        LET l == local[p]
        IN  (l.events # << >> /\ l.events[Len(l.events)].type = "error")
                => l.failed_round > 0

\* C12: a fault raised while a calculator is called (a value of the wrong
\* type, an unexpected argument name, an absent argument) is the result
\* "Tool execution failed" of that tool call, and it does not end the call
\* with an error event: an error event is sent only when the LLM call failed
\* or the arguments of a tool call were no JSON object.
C12_FaultsAreFailures ==
    \A p \in Procs :
        LET l == local[p]
        IN  /\ \A i \in DOMAIN l.tool_results_list :
                  LET r == l.tool_results_list[i]
                  IN  (/\ r.tool_name \in DOMAIN TOOL_FUNCTIONS
                       /\ validate_tool_arguments(r.tool_name, r.arguments).is_valid
                       /\ CallFunction(r.tool_name, r.arguments).raised)
                          => r.result = ExecutionError
            /\ (l.events # << >> /\ l.events[Len(l.events)].type = "error")
                  => \/ l.failed_round > 0
                     \/ \E j \in DOMAIN l.message.tool_calls :
                           LoadArguments(l.message.tool_calls[j]).raised

\* a call that ended with done after a calculator was called with an
\* argument it has no parameter for, and the LLM was called again
C12_Witness ==
    \E p \in Procs :
        LET l == local[p]
        IN  /\ l.pc = "finished"
            /\ l.events[Len(l.events)].type = "done"
            /\ l.llm_calls >= 2
            /\ \E i \in DOMAIN l.tool_results_list :
                  /\ "currency" \in DOMAIN l.tool_results_list[i].arguments.d
                  /\ l.tool_results_list[i].result = ExecutionError

\* C13: a tool call of the loop whose name is none of the four calculators
\* is valid for the validator; no calculator is called for it; its tool
\* message and its entry of tool_results_list are the failure "Unknown tool:
\* <name>", not marked skipped; and after its round the loop goes on: the
\* call is at the head of the loop, or has made the next LLM call, or has
\* used up its five rounds.
C13_UnknownTool ==
    \A p \in Procs :
        LET l == local[p]
            rounds == {i \in DOMAIN l.messages : HasToolCalls(l.messages[i])}
        IN  \A i \in rounds :
              \A j \in 1..Len(l.messages[i].tool_calls) :
                LET tool_call == Invocation(l.messages[i].tool_calls[j])
                    arguments == LoadArguments(tool_call).arguments
                    failure == Error(<<"Unknown tool:", tool_call.name>>)
                IN  tool_call.name \notin ToolNames =>
                      /\ validate_tool_arguments(tool_call.name, Dict(arguments)).is_valid
                      /\ \A call \in calculator_calls : call.name \in ToolNames
                      /\ \E k \in DOMAIN l.messages :
                            /\ IsToolMessage(l.messages[k])
                            /\ l.messages[k].tool_call_id = tool_call.id
                            /\ l.messages[k].content = json_dumps(failure)
                      /\ \E r \in DOMAIN l.tool_results_list :
                            l.tool_results_list[r]
                               = TracedResult(tool_call.name, arguments, failure)
                      /\ l.llm_calls >= Cardinality(rounds)
                      /\ l.llm_calls = Cardinality(rounds)
                            => l.pc = "loop" \/ l.llm_calls = max_iterations

\* get_weather beside a valid tool call in the first completion: the
\* calculator of the valid one was called, the LLM was called again with the
\* failure in the transcript, and the call ended with done
C13_Witness ==
    \E p \in Procs :
        LET l == local[p]
        IN  /\ l.pc = "finished"
            /\ Done(l)
            /\ l.llm_calls = 2
            /\ calculator_calls # {}
            /\ \E k \in DOMAIN l.sent :
                  /\ IsToolMessage(l.sent[k])
                  /\ l.sent[k].content = json_dumps(Error(<<"Unknown tool:", "get_weather">>))

\* C14: when a call is cancelled at a yield of a content event, the stored
\* transcript has no partial assistant turn of it: it has no assistant turn,
\* or (cancelled at the yield of the basic message, which is stored before
\* it is sent) the whole basic message that was sent.
C14_NoPartialTurn ==
    \A p \in Procs :
        LET l == local[p]
        IN  l.pc = "cancelled" =>
              \/ AssistantTurns(l) = << >>
              \/ /\ AssistantTurns(l) = <<[role |-> "assistant", content |-> basic_response]>>
                 /\ l.events[Len(l.events)] = ContentEvent(basic_response)

\* cancelled after the first chunk of a longer answer was sent: the text
\* collected so far is a part of the answer and no assistant turn is stored
C14_Witness ==
    \E p \in Procs :
        LET l == local[p]
        IN  /\ l.pc = "cancelled"
            /\ l.full_response # << >>
            /\ Len(l.full_response) < Len(l.text)
            /\ Stored(l) = <<[role |-> "user", content |-> l.user_message]>>

(***************************************************************************)
(* The store under two requests at a time (StoreSpec).                     *)
(***************************************************************************)
IsPrefix(s, t) == Len(s) <= Len(t) /\ SubSeq(t, 1, Len(s)) = s
\* The call has appended its user turn.
Began(l) == l.messages # << >>
UserTurn(l) == [role |-> "user", content |-> l.user_message]
\* The assistant turn the call has stored.
SavedTurns(l) ==
    IF ~Done(l) THEN << >>
    ELSE IF l.full_response # << >>
    THEN <<[role |-> "assistant", content |-> l.full_response]>>
    ELSE IF l.tool_results_list # << >>
    THEN <<[role |-> "assistant", content |-> basic_response]>>
    ELSE << >>
\* The calls that have appended to a session.
CallsOn(s) == {p \in Procs : local[p].session_id = s /\ Began(local[p])}
RECURSIVE SavedCount(_)
SavedCount(ps) ==
    IF ps = {} THEN 0
    ELSE LET p == CHOOSE p \in ps : TRUE
         IN  Len(SavedTurns(local[p])) + SavedCount(ps \ {p})

\* C15: a step that changes the turns or the facts of a session changes no
\* other session, and it is a step of a call on that session or a merge of
\* facts into that session; a step that creates a session changes no
\* session that exists; no step removes a session.
C15_OtherSessionsUntouched ==
    [][\A s \in DOMAIN conversations :
          /\ s \in DOMAIN conversations'
          /\ DOMAIN conversations' # DOMAIN conversations
                => conversations'[s] = conversations[s]
          /\ conversations'[s] # conversations[s] =>
                /\ \A t \in DOMAIN conversations \ {s} :
                      conversations'[t] = conversations[t]
                /\ \/ \E p \in Procs : /\ local[p].session_id = s
                                       /\ local'[p] # local[p]
                                       /\ \A q \in Procs \ {p} : local'[q] = local[q]
                   \/ /\ local' = local
                      /\ conversations'[s].messages = conversations[s].messages
    ]_vars

\* two calls on different sessions overlap: the second one has ended with
\* its answer stored while the first one is suspended in its stream; the
\* first session has facts and the user turn of its call only, the second
\* has no facts and both turns of its call
C15_Witness ==
    /\ DOMAIN conversations = {1, 2}
    /\ local[1].session_id = 1 /\ local[2].session_id = 2
    /\ local[1].pc = "y_chunk" /\ local[2].pc = "finished"
    /\ conversations[1].user_data # EmptyDict
    /\ conversations[2].user_data = EmptyDict
    /\ conversations[1].messages = <<UserTurn(local[1])>>
    /\ conversations[2].messages = <<UserTurn(local[2])>> \o SavedTurns(local[2])
    /\ SavedTurns(local[2]) # << >>

\* C16: with two calls on one session, every stored turn of the session is
\* a whole turn of one of its calls, the session has as many turns as its
\* calls have appended (none lost, none twice), and each call's user turn
\* is stored once and before the assistant turn of that call.
C16_SerializedAppends ==
    \A s \in DOMAIN conversations :
        LET stored == conversations[s].messages
        IN  /\ Len(stored) = Cardinality(CallsOn(s)) + SavedCount(CallsOn(s))
            /\ \A i \in DOMAIN stored :
                  \E p \in CallsOn(s) :
                      \/ stored[i] = UserTurn(local[p])
                      \/ <<stored[i]>> = SavedTurns(local[p])
            /\ \A p \in CallsOn(s) :
                  /\ Cardinality({i \in DOMAIN stored : stored[i] = UserTurn(local[p])}) = 1
                  /\ SavedTurns(local[p]) # << >> =>
                        \E i, j \in DOMAIN stored :
                            /\ i < j
                            /\ stored[i] = UserTurn(local[p])
                            /\ <<stored[j]>> = SavedTurns(local[p])

\* two calls on the same session overlapped: the first was suspended in its
\* stream while the second appended its user turn and its answer; the
\* session has the two user turns, then the second answer, then the first
C16_Witness ==
    /\ local[1].session_id = local[2].session_id
    /\ local[1].pc = "finished" /\ local[2].pc = "finished"
    /\ SavedTurns(local[1]) # SavedTurns(local[2])
    /\ Stored(local[1]) = <<UserTurn(local[1]), UserTurn(local[2])>>
                            \o SavedTurns(local[2]) \o SavedTurns(local[1])
    /\ Len(Stored(local[1])) = 4

\* C17: every step leaves each session in the store and leaves its stored
\* turns as a prefix of the turns it has after the step; a step in which a
\* call adds the turns of a tool round to its local transcript leaves the
\* store as it is.
C17_AppendOnly ==
    [][/\ \A s \in DOMAIN conversations :
             /\ s \in DOMAIN conversations'
             /\ IsPrefix(conversations[s].messages, conversations'[s].messages)
       /\ \A p \in Procs :
             (Began(local[p]) /\ local'[p].messages # local[p].messages)
                => conversations' = conversations
    ]_vars

\* a session that got the turns of two calls, one after the other, while
\* the local transcript of the second call has a tool turn the stored
\* transcript does not have
C17_Witness ==
    \E p \in Procs :
        LET l == local[p]
        IN  /\ l.pc = "finished"
            /\ session_exists(conversations, l.session_id)
            /\ Len(Stored(l)) = 4
            /\ \A i \in DOMAIN Stored(l) : Stored(l)[i].role \in {"user", "assistant"}
            /\ \E k \in DOMAIN l.messages : IsToolMessage(l.messages[k])

\* C18: stream_chat_response on an identifier that names no session: its
\* add_message raises, the store stays as it is (no session more, no turn
\* more), no LLM call is made and the one event is the error event.  POST
\* /chat on such an identifier is answered 404 with the store as it is, no
\* LLM call and no event.
C18_SessionNotFound ==
    /\ [](\A p \in Procs :
            LET l == local[p]
            IN  /\ l.pc = "not_found" => l.llm_calls = 0 /\ l.events = << >>
                /\ (l.pc \in {"y_error", "finished"} /\ ~Began(l)) =>
                       /\ l.llm_calls = 0
                       /\ l.events = <<ErrorEvent>>
                       /\ \A s \in DOMAIN conversations :
                             \A i \in DOMAIN conversations[s].messages :
                                 conversations[s].messages[i] # UserTurn(l))
    /\ [][\A p \in Procs :
            /\ (local[p].pc = "start" /\ local'[p] # local[p]
                /\ ~session_exists(conversations, local[p].session_id))
                  => /\ conversations' = conversations
                     /\ local'[p].pc = "y_error"
                     /\ ~Began(local'[p])
            /\ (local[p].pc = "idle" /\ local'[p].pc = "not_found")
                  => conversations' = conversations
      ]_vars

\* a call on an identifier without session has ended with the error event
\* alone, beside a session that has the turns of another call
C18_Witness ==
    \E p \in Procs :
        LET l == local[p]
        IN  /\ l.pc = "finished"
            /\ l.events = <<ErrorEvent>>
            /\ l.llm_calls = 0
            /\ ~session_exists(conversations, l.session_id)
            /\ \E s \in DOMAIN conversations : Len(conversations[s].messages) = 2

\* C29: where a call has stored an assistant turn, the content of the turn
\* is the texts of the content events of the call, one after the other in
\* the order they were sent: the text that came with tool calls, the chunks
\* of the final text or of the formatted tool results, or the basic message.
C29_StoredIsStreamed ==
    \A p \in Procs :
        LET l == local[p]
        IN  (session_exists(conversations, l.session_id) /\ AssistantTurns(l) # << >>)
                => /\ Len(AssistantTurns(l)) = 1
                   /\ AssistantTurns(l)[1].content = Streamed(l.events)
                   /\ Streamed(l.events) # << >>

\* a call that sent the text of a completion with tool calls and then a
\* final text in two chunks, and stored the three together
C29_Witness ==
    \E p \in Procs :
        LET l == local[p]
        IN  /\ l.pc = "finished"
            /\ Cardinality({i \in DOMAIN l.events : l.events[i].type = "content"}) = 3
            /\ AssistantTurns(l) =
                  <<[role |-> "assistant", content |-> ShortText \o LongText]>>
            /\ Streamed(l.events) = ShortText \o LongText

\* A turn of a conversation: a user or an assistant message that is a role
\* and a text, without tool calls.
PlainTurn(m) ==
    /\ DOMAIN m = {"role", "content"}
    /\ m.role \in {"user", "assistant"}
    /\ m.role = "assistant" => m.content # << >>

HasToolTurn(messages) ==
    \E i \in DOMAIN messages :
        messages[i].role = "tool" \/ "tool_calls" \in DOMAIN messages[i]

\* C30: the stored messages of every session are user and assistant turns
\* with text only; the tool calls, the tool messages and the system prompt
\* are in the messages of the call that made them and nowhere else, so the
\* first LLM request of a call is the system prompt followed by user and
\* assistant turns, with no tool call and no tool message of a call before.
C30_StoredTurnsOnly ==
    /\ \A session_id \in DOMAIN conversations :
          \A i \in DOMAIN conversations[session_id].messages :
              PlainTurn(conversations[session_id].messages[i])
    /\ \A p \in Procs :
          local[p].llm_calls = 1 =>
              /\ local[p].sent[1] = [role |-> "system", content |-> SYSTEM_PROMPT]
              /\ \A i \in 2..Len(local[p].sent) : PlainTurn(local[p].sent[i])

\* a call had a tool round and stored its turn, and the first LLM request of
\* the next call on the session has that turn and no message of the round
C30_Witness ==
    \E p, q \in Procs :
        /\ p # q
        /\ local[p].pc = "finished"
        /\ HasToolTurn(local[p].messages)
        /\ local[q].session_id = local[p].session_id
        /\ local[q].llm_calls = 1
        /\ Len(local[q].sent) = 4
        /\ local[q].sent[2] = [role |-> "user", content |-> local[p].user_message]
        /\ local[q].sent[3].role = "assistant"
        /\ local[q].sent[4] = [role |-> "user", content |-> local[q].user_message]
        /\ ~HasToolTurn(local[q].sent)

\* C28: in the stored transcript of a session the assistant turn of a call
\* stands directly after the user turn of that call, also when two calls on
\* the session overlap.
C28_AnswerFollowsQuestion ==
    \A s \in DOMAIN conversations :
        LET stored == conversations[s].messages
        IN  \A p \in CallsOn(s) :
                SavedTurns(local[p]) # << >> =>
                    \E i \in DOMAIN stored :
                        /\ stored[i] = UserTurn(local[p])
                        /\ i + 1 \in DOMAIN stored
                        /\ <<stored[i + 1]>> = SavedTurns(local[p])

(***************************************************************************)
(* The validator on its own (ValidatorSpec).                               *)
(***************************************************************************)
\* The validator has returned.
Returns == "check" \in DOMAIN handled
\* The required names that the mapping does not have.
Absent == {param \in Range(required_params[handled.tool_name]) :
              param \notin DOMAIN handled.arguments.d}
\* The must-be-positive names that the mapping has with no positive number.
NotPositive == {param \in Range(positive_params[handled.tool_name]) :
                   /\ param \in DOMAIN handled.arguments.d
                   /\ ~IsPositive(handled.arguments.d[param])}
Names(error_msg) == Range(error_msg)

\* C19: for a mapping with violations the validator's answer is invalid
\* and its one message names every violation: each required name that is
\* missing and each must-be-positive name whose value is no positive number.
C19_AllViolationsNamed ==
    (Returns /\ handled.tool_name \in ToolNames) =>
        (Absent \cup NotPositive # {} =>
            /\ ~handled.check.is_valid
            /\ Absent \cup NotPositive \subseteq Names(handled.check.error_msg))

\* C20: for each of the four tools and every mapping that lacks a required
\* name, the validator's answer is invalid and its message names every
\* required name that is missing.
C20_MissingNamed ==
    (Returns /\ handled.tool_name \in ToolNames) =>
        (Absent # {} =>
            /\ ~handled.check.is_valid
            /\ handled.check.error_msg[1] = "Missing required parameters:"
            /\ Absent \subseteq Names(handled.check.error_msg))

\* buy_vs_rent_analysis with two of its five required names, one of them
\* with the value 0: the answer names the three that are missing
C20_Witness ==
    /\ Returns
    /\ handled.tool_name = "buy_vs_rent_analysis"
    /\ DOMAIN handled.arguments.d = {"monthly_rent", "income"}
    /\ handled.arguments.d.income = Num(0)
    /\ handled.check = Invalid(<<"Missing required parameters:",
                                 "property_price", "stay_years", "down_payment">>)

\* C21: while the completion of the round in progress has tool calls (the
\* call has not left the loop), the call has sent no content event: content
\* events have the text of the final completion only.
C21_NoContentInToolRound ==
    \A p \in Procs :
        LET l == local[p]
        IN  (l.pc \in {"y_interim", "tools"} /\ l.message.tool_calls # << >>)
                => \A i \in DOMAIN l.events : l.events[i].type # "content"

(***************************************************************************)
(* The dispatcher on its own (ToolSpec).                                   *)
(***************************************************************************)
\* execute_tool has returned a result for the tool.
Executes(tool_name) ==
    /\ "result" \in DOMAIN handled
    /\ ~handled.raised
    /\ handled.tool_name = tool_name
IsFailure(result) == "error" \in DOMAIN result
\* The argument of the call, or the default of the signature.
Given(param) == (handled.arguments.d @@ Defaults[handled.tool_name])[param]

\* C22: a result of execute_tool that has a failure reason has nothing
\* else: no output of a calculator comes with it.
C22_FailureOrPayload ==
    ("result" \in DOMAIN handled /\ ~handled.raised /\ IsFailure(handled.result))
        => DOMAIN handled.result = {"error"}

\* C24: for a buy-vs-rent result without failure whose EMI is more than 30%
\* of the income, the recommendation is RENT, whatever the stay is, and the
\* reasons are two: the reason of the stay or cost rule, then the reason of
\* the affordability.
C24_UnaffordableIsRent ==
    (/\ Executes("buy_vs_rent_analysis")
     /\ ~IsFailure(handled.result)
     /\ handled.result.emi > 30 * Given("income").v)
        => /\ handled.result.recommendation = "RENT"
           /\ ~handled.result.is_affordable
           /\ Len(handled.result.reasoning) = 2
           /\ handled.result.reasoning[1][1] \in
                 {"Planning to stay less than 3 years. Transaction costs (",
                  "Planning to stay more than 5 years. Equity buildup and long-term savings favor buying.",
                  "Monthly ownership cost (", "Monthly rent ("}
           /\ handled.result.reasoning[2][1] = "EMI ("

\* a stay of 6 years, for which the first rule says BUY, with an EMI of
\* more than 30% of the income: RENT, with the two reasons
C24_Witness ==
    /\ Executes("buy_vs_rent_analysis")
    /\ ~IsFailure(handled.result)
    /\ Given("stay_years").v = 6
    /\ handled.result.emi > 30 * Given("income").v
    /\ handled.result.recommendation = "RENT"
    /\ handled.result.reasoning[1] =
          <<"Planning to stay more than 5 years. Equity buildup and long-term savings favor buying.">>

\* The monthly interest and the maintenance are less than the rent:
\* (loan * rate / 100) / 12 + price * 0.001 / 12 < rent, with the rate in
\* tenths of a percent and both sides times 12000.
CostBelowRent ==
    (Given("property_price").v - Given("down_payment").v) * Given("interest_rate").v
        + Given("property_price").v < 12000 * Given("monthly_rent").v

\* C25: for a buy-vs-rent result without failure whose EMI is at most 30%
\* of the income: RENT for a stay under 3 years, BUY for a stay over 5
\* years, and from 3 to 5 years BUY exactly when the monthly interest plus
\* the maintenance is less than the rent; the one reason is that rule's.
C25_StayAndCostRule ==
    (/\ Executes("buy_vs_rent_analysis")
     /\ ~IsFailure(handled.result)
     /\ handled.result.emi <= 30 * Given("income").v)
        => LET y == Given("stay_years").v
               recommendation == handled.result.recommendation
           IN  /\ y < 3 => recommendation = "RENT"
               /\ y > 5 => recommendation = "BUY"
               /\ (3 <= y /\ y <= 5) => (recommendation = "BUY" <=> CostBelowRent)
               /\ (3 <= y /\ y <= 5) => (recommendation = "RENT" <=> ~CostBelowRent)
               /\ Len(handled.result.reasoning) = 1

\* a stay of 5 years with an affordable EMI and a cost equal to the rent
\* (1,200,000 at 0%, rent 100): RENT
C25_Witness ==
    /\ Executes("buy_vs_rent_analysis")
    /\ ~IsFailure(handled.result)
    /\ Given("stay_years").v = 5
    /\ handled.result.is_affordable
    /\ handled.result.monthly_ownership_cost = 100 * Given("monthly_rent").v
    /\ handled.result.recommendation = "RENT"

\* C26: for a price V > 0 and a down payment 0 <= D < V the result of
\* check_ltv has is_valid true exactly when the ltv_ratio it reports (in
\* hundredths of a percent) is at most 80, and min_down_payment_required
\* (in hundredths) is 0.2 * V.
C26_ValidIffReportedRatio ==
    (/\ Executes("check_ltv")
     /\ DOMAIN handled.arguments.d = {"property_price", "down_payment"}
     /\ Given("property_price").v > 0
     /\ 0 <= Given("down_payment").v
     /\ Given("down_payment").v < Given("property_price").v)
        => /\ ~IsFailure(handled.result)
           /\ handled.result.is_valid <=> handled.result.ltv_ratio <= max_ltv * 100
           /\ handled.result.min_down_payment_required = 20 * Given("property_price").v

\* C27: calculate_emi with loan_amount > 0 and tenure_years in 1..25 and
\* without interest_rate gives a result without failure, with an EMI, that
\* was computed with the rate 4.5.
C27_DefaultRate ==
    (/\ "result" \in DOMAIN handled
     /\ handled.tool_name = "calculate_emi"
     /\ DOMAIN handled.arguments.d = {"loan_amount", "tenure_years"}
     /\ handled.arguments.d.loan_amount.v > 0
     /\ handled.arguments.d.tenure_years.v \in 1..MaxTenure)
        => /\ ~handled.raised
           /\ ~IsFailure(handled.result)
           /\ "emi" \in DOMAIN handled.result
           /\ handled.result.interest_rate = DefaultInterestRate

\* The last event of the call is done or error.
Terminal(l) ==
    l.events # << >> /\ l.events[Len(l.events)].type \in {"done", "error"}

\* C23: a call of stream_chat_response whose stream is read to its end
\* sends its terminal event (done or error), whatever the completions are,
\* also when every completion has tool calls.
C23_TerminalEventSent ==
    \A p \in Procs : (local[p].pc = "start") ~> Terminal(local[p])

\* a call in which each of the five completions had tool calls, ended with
\* done
C23_Witness ==
    \E p \in Procs :
        LET l == local[p]
        IN  /\ l.pc = "finished"
            /\ l.iteration = max_iterations
            /\ l.message.tool_calls # << >>
            /\ Len(l.tool_results_list) >= max_iterations
            /\ l.events[Len(l.events)] = DoneEvent

(* A call with tool calls (Spec). *)
\* A completion of the call had tool calls.
Requested(l) == l.message.tool_calls # << >> \/ l.tool_results_list # << >>
\* What ends a call in the except clause: the LLM call raised, or the
\* arguments of a tool call were JSON that is no object.
Fault(l) ==
    \/ l.failed_round > 0
    \/ \E j \in DOMAIN l.message.tool_calls :
          LoadArguments(l.message.tool_calls[j]).raised
AllFailed(tool_results) ==
    \A i \in DOMAIN tool_results : IsFailure(tool_results[i].result)

\* C31: a call in which a completion had tool calls and in which nothing
\* raised has, when its generator has returned, sent a content event with
\* text, stored exactly one assistant turn and sent done as its last event;
\* also when all five completions had tool calls, and when every tool
\* result is a failure.
C31_ToolCallsAreAnswered ==
    \A p \in Procs :
        LET l == local[p]
        IN  (l.pc = "finished" /\ Requested(l) /\ ~Fault(l))
                => /\ Done(l)
                   /\ \E i \in 1..(Len(l.events) - 1) :
                         l.events[i].type = "content" /\ l.events[i].content # << >>
                   /\ Len(AssistantTurns(l)) = 1
                   /\ AssistantTurns(l)[1].content # << >>

\* a call whose tool results are all failures, one of them skipped, and
\* whose completions had no text: the basic message is its answer
C31_Witness ==
    \E p \in Procs :
        LET l == local[p]
        IN  /\ l.pc = "finished"
            /\ ~Fault(l)
            /\ l.tool_results_list # << >>
            /\ AllFailed(l.tool_results_list)
            /\ \E i \in DOMAIN l.tool_results_list :
                  "skipped" \in DOMAIN l.tool_results_list[i].result
            /\ l.events = <<ContentEvent(basic_response), DoneEvent>>
            /\ AssistantTurns(l) = <<[role |-> "assistant", content |-> basic_response]>>

\* The tool round of the last completion has been written to messages.
RoundWritten(l) ==
    /\ l.message.tool_calls # << >>
    /\ \/ l.pc \in {"loop", "after_loop", "y_fmt", "save", "y_basic", "y_done"}
       \/ l.pc = "finished" /\ Done(l)
\* The validator accepts the converted arguments of the tool call.
Passed(tool_call) ==
    validate_tool_arguments(tool_call.name,
                            Dict(LoadArguments(tool_call).arguments)).is_valid
NotPassed(tool_call) == ~Passed(tool_call)
\* The tool calls of a completion, those that pass first.
PassedFirst(tool_calls) ==
    SelectSeq(tool_calls, Passed) \o SelectSeq(tool_calls, NotPassed)

\* C32: the tool messages of a round and the tool_calls entries of its
\* assistant message are in the same order: first the tool calls the
\* validator accepted, then the skipped ones, each group in the order of
\* the completion; every entry has the id, the name and the argument text
\* of the tool call as the LLM sent them.
C32_ValidFirstThenSkipped ==
    \A p \in Procs :
        LET l == local[p]
            m == l.messages
            n == Len(l.message.tool_calls)
            order == PassedFirst(l.message.tool_calls)
        IN  RoundWritten(l) =>
              /\ Len(m) > n + 1
              /\ m[Len(m)].role = "assistant"
              /\ HasToolCalls(m[Len(m)])
              /\ Len(m[Len(m)].tool_calls) = n
              /\ \A i \in 1..n :
                    /\ Invocation(m[Len(m)].tool_calls[i]) = order[i]
                    /\ IsToolMessage(m[Len(m) - n - 1 + i])
                    /\ m[Len(m) - n - 1 + i].tool_call_id = order[i].id

\* a completion whose first tool call is skipped and whose second one is
\* executed: the second comes first in messages
C32_Witness ==
    \E p \in Procs :
        LET l == local[p]
            m == l.messages
        IN  /\ RoundWritten(l)
            /\ Len(l.message.tool_calls) = 2
            /\ NotPassed(l.message.tool_calls[1])
            /\ Passed(l.message.tool_calls[2])
            /\ m[Len(m)].tool_calls[1].id = l.message.tool_calls[2].id
            /\ m[Len(m) - 2].tool_call_id = l.message.tool_calls[2].id
            /\ m[Len(m) - 1].tool_call_id = l.message.tool_calls[1].id
            /\ "skipped" \in DOMAIN m[Len(m) - 1].content.json

(* buy_vs_rent_analysis through execute_tool (ToolSpec). *)
\* execute_tool returned an analysis with a recommendation.
Analysed ==
    /\ Executes("buy_vs_rent_analysis")
    /\ "recommendation" \in DOMAIN handled.result

\* C33: an analysis is returned only when the LTV check of the price and
\* the down payment is valid, the down payment being at least 20% of the
\* price and below it, and its EMI is that of the loan over 25 years; an
\* analysis that recommends BUY has a stay of at least 3 years and an EMI
\* of at most 30% of the income.  When the LTV check is invalid or fails,
\* the result is a failure.
C33_BuyConditions ==
    /\ Analysed =>
          LET r == handled.result
              price == Given("property_price").v
              down == Given("down_payment").v
          IN  /\ ~IsFailure(r)
              /\ ~IsFailure(r.ltv_details)
              /\ r.ltv_details.is_valid
              /\ 100 * down >= (100 - max_ltv) * price
              /\ down < price
              /\ r.emi_details.tenure_years = 25
              /\ r.emi = calculate_emi(Num(price - down), Given("interest_rate"),
                                       Num(25)).result.emi
              /\ r.recommendation = "BUY" =>
                    /\ Given("stay_years").v >= 3
                    /\ r.emi <= 30 * Given("income").v
    /\ (/\ Executes("buy_vs_rent_analysis")
        /\ {"property_price", "down_payment"} \subseteq DOMAIN handled.arguments.d
        /\ LtvRejected(check_ltv(Given("property_price"), Given("down_payment")).result))
          => IsFailure(handled.result)

\* BUY at the borders: a stay of 3 years and a down payment of 20%
C33_Witness ==
    /\ Analysed
    /\ handled.result.recommendation = "BUY"
    /\ Given("stay_years").v = 3
    /\ 100 * Given("down_payment").v = (100 - max_ltv) * Given("property_price").v
    /\ handled.result.ltv_details.ltv_ratio = 100 * max_ltv

====
